---------------------------- MODULE Spec2Model ----------------------------
(***************************************************************************)
(* A model of the askyourgov meeting scraper: the URL Builder              *)
(* (build_download_url), the Date Extractor (extract_meeting_date), the    *)
(* Meeting Lister / date filter / count limit and the per-meeting batch    *)
(* loop (scrape_meetings_with_files, scraper_cli.main), and the File Page  *)
(* Walker (scrape_meeting_files) of both backends.                         *)
(*                                                                         *)
(* Python values are modelled as tagged records, so that truthiness        *)
(* (`if not x`), dict.get with and without a default, and str() are        *)
(* computed the way Python computes them.                                  *)
(***************************************************************************)
EXTENDS Integers, Sequences, FiniteSets, TLC

VARIABLES
    ub_pc,        \* URL Builder harness: "call" | "done"
    ub_in,        \* its arguments [rf, is_attachment, plain_text]
    ub_out,       \* its return value (a Python value)
    de_pc,        \* Date Extractor harness: "call" | "done"
    de_entry,     \* the rendered meeting entry: its three date sources
    de_out,       \* what extract_meeting_date did: [raised, date, read]
    wk_pc,        \* File Page Walker: "start" | "primary" | "attachments" | "returned" | "raised"
    wk_backend,   \* which implementation runs
    wk_page,      \* the files page of the meeting
    wk_files,     \* the list `files` built so far
    wk_events,    \* the clicks made so far
    site,         \* the portal: [fails, entries], each entry with its files page
    argv,         \* the command line: the texts given for --start and --end
    args,         \* the run's options
    pc,           \* where the run is
    listing,      \* what the listing phase did: [fault, raised, session]
    listed,       \* what scrape_meetings returned
    filtered,     \* the list after the date filter
    meetings,     \* the local `meetings` of the run
    idx,          \* position of the per-meeting loop in `meetings`
    scraped,      \* event ids scrape_meeting_files was called for, in order
    downloads,    \* download attempts made, in order
    session,      \* browser session of the files phase: "none" | "open" | "closed"
    aborted,      \* the outer handler of the per-meeting loop was entered
    fn_pc,        \* file naming harness: "call" | "done"
    fn_in,        \* a record's name (characters), plain_text, and the event id
    fn_out,       \* the path the record is saved at
    ci_pc,        \* Component Inspector harness: "call" | "done"
    ci_el,        \* the element inspected: [evalRaises, chain]
    ci_out        \* what inspect_button_handlers returned

urlVars  == <<ub_pc, ub_in, ub_out>>
dateVars == <<de_pc, de_entry, de_out>>

walkVars == <<wk_pc, wk_backend, wk_page, wk_files, wk_events>>
runVars == <<site, argv, args, pc, listing, listed, filtered, meetings, idx, scraped, downloads,
             session, aborted>>
nameVars == <<fn_pc, fn_in, fn_out>>
inspVars == <<ci_pc, ci_el, ci_out>>
vars == <<urlVars, dateVars, walkVars, runVars, nameVars, inspVars>>

(***************************************************************************)
(* Python values.                                                          *)
(***************************************************************************)
Absent   == [ty |-> "absent", v |-> ""]     \* a key that is not in the dict
PyNone   == [ty |-> "none",   v |-> ""]     \* None (a JS null)
PyStr(s) == [ty |-> "str",    v |-> s]
PyInt(s) == [ty |-> "int",    v |-> s]      \* an int, kept as its decimal digits
PyTrue   == [ty |-> "bool",   v |-> "True"]
PyFalse  == [ty |-> "bool",   v |-> "False"]

PyBool(b) == IF b THEN PyTrue ELSE PyFalse

\* bool(x): None, "", 0 and False are falsy
Truthy(x) ==
    CASE x.ty = "none"   -> FALSE
      [] x.ty = "absent" -> FALSE
      [] x.ty = "str"    -> x.v # ""
      [] x.ty = "int"    -> x.v # "0"
      [] x.ty = "bool"   -> x.v = "True"

\* str(x), as an f-string renders it
Str(x) == IF x.ty = "none" THEN "None" ELSE x.v

\* str(b).lower() for a bool b
StrLower(x) ==
    CASE x.v = "True"  -> "true"
      [] x.v = "False" -> "false"
      [] OTHER         -> x.v

\* d.get(k): None when the key is missing
Get(d, k) == IF d[k].ty = "absent" THEN PyNone ELSE d[k]

\* d.get(k, default): the default only when the key is missing
GetD(d, k, default) == IF d[k].ty = "absent" THEN default ELSE d[k]

\* A remoteFile payload is a dict; `other` says it holds further keys.
NoDict == [isdict |-> FALSE, fileId |-> Absent, fileType |-> Absent,
           name |-> Absent, streamUrl |-> Absent, other |-> FALSE]

Dict(fid, ftype, nm, surl, oth) ==
    [isdict |-> TRUE, fileId |-> fid, fileType |-> ftype,
     name |-> nm, streamUrl |-> surl, other |-> oth]

\* bool(d) for None or a dict: an empty dict is falsy
TruthyDict(d) ==
    /\ d.isdict
    /\ \/ d.other
       \/ \E k \in {"fileId", "fileType", "name", "streamUrl"} : d[k].ty # "absent"

(***************************************************************************)
(* URL Builder.                                                            *)
(***************************************************************************)
API_BASE_URL == "https://firestoneco.api.civicclerk.com/v1/"

AttachmentUrl(file_id) ==
    API_BASE_URL \o "Meetings/GetAttachmentFile(fileId=" \o Str(file_id) \o ")"

StreamUrl(file_id, plain_text) ==
    API_BASE_URL \o "Meetings/GetMeetingFileStream(fileId=" \o Str(file_id)
        \o ",plainText=" \o StrLower(PyBool(plain_text)) \o ")"

\* build_download_url with the two guards exchanged: streamUrl looked at first
build_download_url_StreamFirst(remote_file, is_attachment, plain_text) ==
    IF ~TruthyDict(remote_file) THEN PyNone
    ELSE IF Truthy(Get(remote_file, "streamUrl")) THEN Get(remote_file, "streamUrl")
    ELSE IF ~Truthy(Get(remote_file, "fileId")) THEN PyNone
    ELSE IF is_attachment THEN PyStr(AttachmentUrl(Get(remote_file, "fileId")))
    ELSE PyStr(StreamUrl(Get(remote_file, "fileId"), plain_text))

\* build_download_url that constructs the API URL even when a streamUrl exists
build_download_url_NoStream(remote_file, is_attachment, plain_text) ==
    IF ~TruthyDict(remote_file) THEN PyNone
    ELSE IF ~Truthy(Get(remote_file, "fileId")) THEN PyNone
    ELSE IF is_attachment THEN PyStr(AttachmentUrl(Get(remote_file, "fileId")))
    ELSE PyStr(StreamUrl(Get(remote_file, "fileId"), plain_text))

\* build_download_url with the two URL shapes exchanged
build_download_url_Swapped(remote_file, is_attachment, plain_text) ==
    IF ~TruthyDict(remote_file) THEN PyNone
    ELSE IF ~Truthy(Get(remote_file, "fileId")) THEN PyNone
    ELSE IF Truthy(Get(remote_file, "streamUrl")) THEN Get(remote_file, "streamUrl")
    ELSE IF ~is_attachment THEN PyStr(AttachmentUrl(Get(remote_file, "fileId")))
    ELSE PyStr(StreamUrl(Get(remote_file, "fileId"), plain_text))

build_download_url(remote_file, is_attachment, plain_text) ==
    IF ~TruthyDict(remote_file) THEN PyNone
    ELSE IF ~Truthy(Get(remote_file, "fileId")) THEN PyNone
    ELSE IF Truthy(Get(remote_file, "streamUrl")) THEN Get(remote_file, "streamUrl")
    ELSE IF is_attachment THEN PyStr(AttachmentUrl(Get(remote_file, "fileId")))
    ELSE PyStr(StreamUrl(Get(remote_file, "fileId"), plain_text))

\* The references the harness calls the builder with.
FileIdValues    == {Absent, PyNone, PyStr(""), PyInt("0"), PyInt("42"), PyStr("123")}
FileTypeValues  == {Absent, PyNone, PyInt("1"), PyInt("3")}
NameValues      == {Absent, PyStr("Agenda")}
StreamUrlValues == {Absent, PyNone, PyStr(""), PyStr("https://blob.example/a.pdf?sig=1")}

UrlReferences ==
    {NoDict} \cup
    { Dict(fid, ft, nm, su, FALSE) :
        fid \in FileIdValues, ft \in FileTypeValues,
        nm \in NameValues, su \in StreamUrlValues }

UrlInit ==
    /\ ub_pc = "call"
    /\ ub_in \in [rf : UrlReferences, is_attachment : BOOLEAN, plain_text : BOOLEAN]
    /\ ub_out = PyNone

UrlIdle ==
    /\ ub_pc = "idle"
    /\ ub_in = [rf |-> NoDict, is_attachment |-> FALSE, plain_text |-> FALSE]
    /\ ub_out = PyNone

BuildDownloadUrl ==
    /\ ub_pc = "call"
    /\ ub_out' = build_download_url(ub_in.rf, ub_in.is_attachment, ub_in.plain_text)
    /\ ub_pc' = "done"
    /\ UNCHANGED ub_in

(***************************************************************************)
(* Date Extractor.  A rendered entry carries three date sources:           *)
(*   data_date  - the data-date attribute: missing, or a string that is    *)
(*                empty, unparseable, or of the extended ISO-8601 shape    *)
(*                YYYY-MM-DD[THH:MM:SS[zone]] with the given field values; *)
(*   aria_label - the aria-label attribute: missing, or a string seen as   *)
(*                the tokens the pattern works on (words and digit runs,   *)
(*                separated by the blanks and , . the pattern allows);     *)
(*   h2         - the h2 inside the date-details block: not there, or its  *)
(*                text as tokens.                                          *)
(***************************************************************************)
NoDate == [y |-> 0, m |-> 0, d |-> 0]        \* None
Date(y, m, d) == [y |-> y, m |-> m, d |-> d]

IsLeap(y) == (y % 4 = 0 /\ y % 100 # 0) \/ y % 400 = 0

DaysInMonth(y, m) ==
    CASE m \in {4, 6, 9, 11} -> 30
      [] m = 2               -> IF IsLeap(y) THEN 29 ELSE 28
      [] OTHER               -> 31

\* datetime(year, month, day) raises ValueError outside these ranges
ValidDate(y, m, d) ==
    /\ y \in 1..9999
    /\ m \in 1..12
    /\ d \in 1..DaysInMonth(y, m)

\* A zone is "" (naive), "Z" or a signed offset in hours.
NoZone == [given |-> FALSE, z |-> FALSE, hours |-> 0]
ZoneZ  == [given |-> TRUE,  z |-> TRUE,  hours |-> 0]
ZoneOffset(h) == [given |-> TRUE, z |-> FALSE, hours |-> h]

\* data_date.replace('Z', '+00:00')
ReplaceZ(zone) == IF zone.z THEN ZoneOffset(0) ELSE zone

\* datetime.fromisoformat(s).date(): the date fields as written, or ValueError
FromIsoFormatDate(dd) ==
    LET zone == ReplaceZ(dd.zone)
        ok == /\ dd.kind = "iso"
              /\ ValidDate(dd.y, dd.m, dd.d)
              /\ dd.hh \in 0..23 /\ dd.mi \in 0..59 /\ dd.ss \in 0..59
              /\ ~zone.z
              /\ zone.hours \in -23..23
    IN  [ok |-> ok, date |-> IF ok THEN Date(dd.y, dd.m, dd.d) ELSE NoDate]

\* Tokens of a label text.
Word(s)     == [k |-> "w", s |-> s, v |-> 0, nd |-> 0]
Num(v, nd)  == [k |-> "n", s |-> <<>>, v |-> v, nd |-> nd]

UpperCase == <<"A","B","C","D","E","F","G","H","I","J","K","L","M",
               "N","O","P","Q","R","S","T","U","V","W","X","Y","Z">>
LowerCase == <<"a","b","c","d","e","f","g","h","i","j","k","l","m",
               "n","o","p","q","r","s","t","u","v","w","x","y","z">>

\* c.lower() for one character
LowerChar(c) ==
    IF \E i \in 1..26 : UpperCase[i] = c
    THEN LowerCase[CHOOSE i \in 1..26 : UpperCase[i] = c]
    ELSE c

\* month_name.lower()[:3]
Lower3(s) ==
    LET n == IF Len(s) < 3 THEN Len(s) ELSE 3
    IN  [i \in 1..n |-> LowerChar(s[i])]

MonthKeys == << <<"j","a","n">>, <<"f","e","b">>, <<"m","a","r">>, <<"a","p","r">>,
                <<"m","a","y">>, <<"j","u","n">>, <<"j","u","l">>, <<"a","u","g">>,
                <<"s","e","p">>, <<"o","c","t">>, <<"n","o","v">>, <<"d","e","c">> >>

\* month_map.get(key): 0 stands for None
month_map_get(key) ==
    IF \E i \in 1..12 : MonthKeys[i] = key
    THEN CHOOSE i \in 1..12 : MonthKeys[i] = key
    ELSE 0

\* The first 4 digits of a digit run of nd >= 4 digits, as \d{4} takes them.
First4(t) == t.v \div (10 ^ (t.nd - 4))

\* re.search(r'([A-Za-z]+),?\s+([A-Za-z]+)\.?\s+(\d+),?\s+(\d{4})', text):
\* the leftmost word, word, digits, 4-digit run; 0 when there is none.
SearchAria(toks) ==
    LET hits == { i \in 1..(Len(toks) - 3) :
                    /\ toks[i].k = "w" /\ toks[i+1].k = "w"
                    /\ toks[i+2].k = "n"
                    /\ toks[i+3].k = "n" /\ toks[i+3].nd >= 4 }
    IN  IF hits = {} THEN 0 ELSE CHOOSE i \in hits : \A j \in hits : i <= j

\* re.search(r'([A-Za-z]+)\s+(\d+),?\s+(\d{4})', text)
SearchH2(toks) ==
    LET hits == { i \in 1..(Len(toks) - 2) :
                    /\ toks[i].k = "w"
                    /\ toks[i+1].k = "n"
                    /\ toks[i+2].k = "n" /\ toks[i+2].nd >= 4 }
    IN  IF hits = {} THEN 0 ELSE CHOOSE i \in hits : \A j \in hits : i <= j

\* One source's outcome: it gave a date, it gave nothing, or it raised.
Gave(dt)  == [st |-> "date", date |-> dt]
Nothing   == [st |-> "none", date |-> NoDate]
Raised    == [st |-> "raise", date |-> NoDate]

\* month_map lookup and datetime(year, month, day).date()
MonthDayYear(name, day, year) ==
    LET month == month_map_get(Lower3(name))
    IN  IF month = 0 THEN Nothing
        ELSE IF ValidDate(year, month, day) THEN Gave(Date(year, month, day))
        ELSE Raised

\* lines 22-30: the data-date attribute; its own try/except swallows a failure
Source1(e) ==
    IF ~e.data_date.present \/ e.data_date.kind = "empty" THEN Nothing
    ELSE LET r == FromIsoFormatDate(e.data_date)
         IN  IF r.ok THEN Gave(r.date) ELSE Nothing

\* lines 32-49: the aria-label; nothing here catches datetime()'s ValueError
Source2(e) ==
    IF e.aria_raises THEN Raised
    ELSE IF ~e.aria_label.present \/ e.aria_label.toks = <<>> THEN Nothing
    ELSE LET i == SearchAria(e.aria_label.toks)
         IN  IF i = 0 THEN Nothing
             ELSE MonthDayYear(e.aria_label.toks[i+1].s,
                               e.aria_label.toks[i+2].v,
                               First4(e.aria_label.toks[i+3]))

\* lines 51-73: the h2 of the date-details block, all inside try/except: pass
Source3(e) ==
    IF ~e.h2.present THEN Nothing
    ELSE IF e.h2.toks = <<>> THEN Nothing
    ELSE LET i == SearchH2(e.h2.toks)
             r == IF i = 0 THEN Nothing
                  ELSE MonthDayYear(e.h2.toks[i].s, e.h2.toks[i+1].v,
                                    First4(e.h2.toks[i+2]))
         IN  IF r.st = "raise" THEN Nothing ELSE r

\* extract_meeting_date that tries the h2 before the aria-label
extract_meeting_date_H2First(e) ==
    LET s1 == Source1(e)  s2 == Source2(e)  s3 == Source3(e)
    IN  IF s1.st = "date" THEN [raised |-> FALSE, date |-> s1.date, read |-> {1}]
        ELSE IF s3.st = "date"
             THEN [raised |-> FALSE, date |-> s3.date, read |-> {1, 3}]
        ELSE IF s2.st = "date"
             THEN [raised |-> FALSE, date |-> s2.date, read |-> {1, 2, 3}]
        ELSE [raised |-> FALSE, date |-> NoDate, read |-> {1, 2, 3}]

\* extract_meeting_date: the first source that returns wins; an exception
\* that leaves source 2 ends in the outer `except Exception: return None`
extract_meeting_date(e) ==
    LET s1 == Source1(e)  s2 == Source2(e)  s3 == Source3(e)
    IN  IF s1.st = "date" THEN [raised |-> FALSE, date |-> s1.date, read |-> {1}]
        ELSE IF s2.st = "date"
             THEN [raised |-> FALSE, date |-> s2.date, read |-> {1, 2}]
        ELSE IF s2.st = "raise"
             THEN [raised |-> FALSE, date |-> NoDate, read |-> {1, 2}]
        ELSE [raised |-> FALSE, date |-> s3.date, read |-> {1, 2, 3}]

(***************************************************************************)
(* The entries the Date Extractor is run on.                               *)
(***************************************************************************)
Iso(y, m, d, hh, mi, ss, zone) ==
    [present |-> TRUE, kind |-> "iso", y |-> y, m |-> m, d |-> d,
     hh |-> hh, mi |-> mi, ss |-> ss, zone |-> zone]
NoAttr ==
    [present |-> FALSE, kind |-> "none", y |-> 0, m |-> 0, d |-> 0,
     hh |-> 0, mi |-> 0, ss |-> 0, zone |-> NoZone]
EmptyAttr   == [NoAttr EXCEPT !.present = TRUE, !.kind = "empty"]
GarbageAttr == [NoAttr EXCEPT !.present = TRUE, !.kind = "garbage"]

DataDates ==
    { NoAttr, EmptyAttr, GarbageAttr,
      Iso(2025, 8, 13, 18, 0, 0, ZoneZ),            \* 2025-08-13T18:00:00Z
      Iso(2025, 8, 13, 23, 30, 0, ZoneOffset(-7)),  \* 2025-08-13T23:30:00-07:00
      Iso(2024, 2, 29, 0, 0, 0, NoZone),            \* 2024-02-29T00:00:00
      Iso(2025, 2, 30, 18, 0, 0, ZoneZ),            \* no such day
      Iso(2025, 13, 1, 18, 0, 0, ZoneZ),            \* no such month
      Iso(2025, 8, 13, 25, 0, 0, ZoneZ) }           \* no such hour

Text(toks) == [present |-> TRUE, toks |-> toks]
NoText     == [present |-> FALSE, toks |-> <<>>]

W_on        == Word(<<"o","n">>)
W_Wednesday == Word(<<"W","e","d","n","e","s","d","a","y">>)
W_Aug       == Word(<<"A","u","g">>)
W_Feb       == Word(<<"F","e","b">>)
W_SEPTEMBER == Word(<<"S","E","P","T","E","M","B","E","R">>)
W_Xyz       == Word(<<"X","y","z">>)
W_PM        == Word(<<"P","M">>)

AriaLabels ==
    { NoText,
      Text(<<>>),
      Text(<<W_on, W_Wednesday>>),                                  \* no date
      Text(<<W_on, W_Wednesday, W_Aug, Num(14, 2), Num(2025, 4),
             Num(6, 1), W_PM>>),                                    \* Aug. 14, 2025
      Text(<<W_Wednesday, W_SEPTEMBER, Num(1, 1), Num(20255, 5)>>), \* SEPTEMBER 1, 20255
      Text(<<W_Wednesday, W_Xyz, Num(14, 2), Num(2025, 4)>>),       \* unknown month
      Text(<<W_Wednesday, W_Feb, Num(30, 2), Num(2025, 4)>>),       \* Feb. 30, 2025
      Text(<<W_Wednesday, W_Aug, Num(14, 2), Num(0, 4)>>) }         \* Aug. 14, 0000

H2Texts ==
    { NoText,
      Text(<<>>),
      Text(<<W_Aug, Num(15, 2), Num(2025, 4)>>),                    \* Aug 15, 2025
      Text(<<W_Xyz, Num(15, 2), Num(2025, 4)>>),                    \* unknown month
      Text(<<W_Feb, Num(29, 2), Num(2025, 4)>>),                    \* Feb 29, 2025
      Text(<<W_Aug, Num(15, 2)>>) }                                 \* no year

DateEntries ==
    [data_date : DataDates, aria_label : AriaLabels, aria_raises : BOOLEAN,
     h2 : H2Texts]

DateInit ==
    /\ de_pc = "call"
    /\ de_entry \in DateEntries
    /\ de_out = [raised |-> FALSE, date |-> NoDate, read |-> {}]

DateIdle ==
    /\ de_pc = "idle"
    /\ de_entry = [data_date |-> NoAttr, aria_label |-> NoText,
                   aria_raises |-> FALSE, h2 |-> NoText]
    /\ de_out = [raised |-> FALSE, date |-> NoDate, read |-> {}]

ExtractMeetingDate ==
    /\ de_pc = "call"
    /\ de_out' = extract_meeting_date(de_entry)
    /\ de_pc' = "done"
    /\ UNCHANGED de_entry

(***************************************************************************)
(* Component Inspector.  A DOM element carries the chain of framework      *)
(* nodes reachable from it: its own node first, then node.return, and so   *)
(* on.  Props are an object (or null) that may hold the key remoteFile,    *)
(* with null or an object under it.                                        *)
(***************************************************************************)
NoProps == [isprops |-> FALSE, key |-> "absent", rf |-> NoDict]
Props(key, rf) == [isprops |-> TRUE, key |-> key, rf |-> rf]

Node(dfb, memo, pending) == [dfb |-> dfb, memo |-> memo, pending |-> pending]

\* JS: fiber.memoizedProps && fiber.memoizedProps.remoteFile (any object is truthy)
JsHasRemoteFile(node) == node.memo.isprops /\ node.memo.key = "obj"

MaxDepth == 10

NotFound  == [found |-> FALSE, rf |-> NoDict]
Found(rf) == [found |-> TRUE, rf |-> rf]

\* findComponentWithRemoteFile without the test of the depth
RECURSIVE findComponentWithRemoteFile_NoCap(_, _, _)
findComponentWithRemoteFile_NoCap(chain, pos, depth) ==
    IF pos > Len(chain) THEN NotFound
    ELSE IF JsHasRemoteFile(chain[pos]) THEN Found(chain[pos].memo.rf)
    ELSE findComponentWithRemoteFile_NoCap(chain, pos + 1, depth + 1)

\* findComponentWithRemoteFile(fiber, depth): chain[pos] is the fiber
RECURSIVE findComponentWithRemoteFile(_, _, _)
findComponentWithRemoteFile(chain, pos, depth) ==
    IF pos > Len(chain) \/ depth > MaxDepth THEN NotFound
    ELSE IF chain[pos].dfb /\ JsHasRemoteFile(chain[pos])
         THEN Found(chain[pos].memo.rf)
    ELSE IF JsHasRemoteFile(chain[pos]) THEN Found(chain[pos].memo.rf)
    ELSE IF pos < Len(chain)
         THEN findComponentWithRemoteFile(chain, pos + 1, depth + 1)
    ELSE NotFound

\* What inspect_button_handlers returns: None (ok = FALSE) after any error,
\* else the dict with reactProps and remoteFile (null when not found).
NoHandlers == [ok |-> FALSE, reactProps |-> NoProps, remoteFile |-> NoDict]

inspect_button_handlers(el) ==
    IF el.evalRaises THEN NoHandlers
    ELSE IF el.chain = <<>>
         THEN [ok |-> TRUE, reactProps |-> NoProps, remoteFile |-> NoDict]
    ELSE [ok |-> TRUE,
          reactProps |-> IF el.chain[1].memo.isprops THEN el.chain[1].memo
                         ELSE el.chain[1].pending,
          remoteFile |-> findComponentWithRemoteFile(el.chain, 1, 0).rf]

\* The caller's reading of the handlers (firestone.py:499-504, 657-663):
\* handlers['remoteFile'] when truthy, else reactProps['remoteFile'] when the
\* key is there (None under a null), else None.
RemoteFileOf(handlers) ==
    IF handlers.ok /\ TruthyDict(handlers.remoteFile) THEN handlers.remoteFile
    ELSE IF handlers.ok /\ handlers.reactProps.isprops
            /\ handlers.reactProps.key # "absent"
         THEN handlers.reactProps.rf
    ELSE NoDict

\* Whether that reading took the reactProps branch and found the key.
FromReactProps(handlers) ==
    /\ handlers.ok /\ ~TruthyDict(handlers.remoteFile)
    /\ handlers.reactProps.isprops /\ handlers.reactProps.key # "absent"

\* Elements of the fixtures.
Element(chain) == [evalRaises |-> FALSE, chain |-> chain]
El_none        == Element(<<>>)
El_fails       == [evalRaises |-> TRUE, chain |-> <<>>]
El_own(rf)     == Element(<<Node(TRUE, Props("obj", rf), NoProps)>>)
El_anc(rf)     == Element(<<Node(FALSE, Props("absent", NoDict), NoProps),
                            Node(TRUE, Props("obj", rf), NoProps)>>)
El_null        == Element(<<Node(FALSE, Props("null", NoDict), NoProps)>>)
El_pending(rf) == Element(<<Node(FALSE, NoProps, Props("obj", rf))>>)

(***************************************************************************)
(* The inspector on its own: parent chains of up to two nodes of interest  *)
(* among nodes without props of interest.                                  *)
(***************************************************************************)
N_plain       == Node(FALSE, Props("absent", NoDict), NoProps)
N_null        == Node(FALSE, Props("null", NoDict), NoProps)
N_noProps     == Node(FALSE, NoProps, NoProps)
N_pending(rf) == Node(FALSE, NoProps, Props("obj", rf))
N_payload(rf) == Node(FALSE, Props("obj", rf), NoProps)
N_button(rf)  == Node(TRUE, Props("obj", rf), NoProps)
N_buttonBare  == Node(TRUE, Props("absent", NoDict), NoProps)

NodesOfInterest(rf) ==
    {N_plain, N_null, N_noProps, N_pending(rf), N_payload(rf), N_button(rf), N_buttonBare}

Pad(n) == [i \in 1..n |-> N_plain]

MaxAbove   == 11
MaxBetween == 2

RF_near == Dict(PyInt("42"), PyInt("1"), PyStr("Agenda Packet"), Absent, TRUE)
RF_far  == Dict(PyInt("77"), PyInt("3"), PyStr("Staff Report"), Absent, TRUE)

Chains ==
    { Pad(n1) \o <<a>> \o Pad(n2) \o <<b>> :
        n1 \in 0..MaxAbove, n2 \in 0..MaxBetween,
        a \in NodesOfInterest(RF_near), b \in NodesOfInterest(RF_far) }
    \cup {<<>>}

InspInit ==
    /\ ci_pc = "call"
    /\ ci_el \in { Element(c) : c \in Chains } \cup {El_fails}
    /\ ci_out = NoHandlers

InspIdle ==
    /\ ci_pc = "idle"
    /\ ci_el = El_none
    /\ ci_out = NoHandlers

InspectButton ==
    /\ ci_pc = "call"
    /\ ci_out' = inspect_button_handlers(ci_el)
    /\ ci_pc' = "done"
    /\ UNCHANGED ci_el

(***************************************************************************)
(* File Page Walker: scrape_meeting_files of both backends.  The two       *)
(* implementations are the same text except where `backend` is consulted.  *)
(***************************************************************************)
Backends == {"playwright", "selenium"}

\* x or "N/A"
OrNA(x) == IF Truthy(x) THEN x ELSE PyStr("N/A")

\* The characters of the menu labels of the fixtures.
Chars(s) ==
    CASE s = "PDF"        -> <<"P", "D", "F">>
      [] s = "Plain Text" -> <<"P", "l", "a", "i", "n", " ", "T", "e", "x", "t">>
      [] s = "Agenda (Plain Text)" ->
             <<"A", "g", "e", "n", "d", "a", " ", "(", "P", "l", "a", "i", "n",
               " ", "T", "e", "x", "t", ")">>
      [] s = "plain text" -> <<"p", "l", "a", "i", "n", " ", "t", "e", "x", "t">>
      [] OTHER            -> <<>>

\* pat in s
IsIn(pat, s) ==
    \E i \in 1..(Len(s) - Len(pat) + 1) : SubSeq(s, i, i + Len(pat) - 1) = pat

PlainTextLabel(label) == IsIn(Chars("Plain Text"), Chars(label))

\* The dict appended for one menu item of the primary section; `origin`
\* (section, entry, menu item) is bookkeeping of the model only.
PrimaryRecord_Raw(file_name, file_type, download_url, file_id, plain_text, file_data, origin) ==
    [name |-> file_name, type |-> PyStr(file_type), section |-> Absent,
     download_url |-> download_url, file_id |-> file_id,
     plain_text |-> PyBool(plain_text), is_attachment |-> Absent,
     has_stream_url |-> PyBool(TruthyDict(file_data)
                               /\ Truthy(Get(file_data, "streamUrl"))),
     origin |-> origin]

PrimaryRecord(file_name, file_type, download_url, file_id, plain_text, file_data, origin) ==
    [name |-> file_name, type |-> PyStr(file_type), section |-> Absent,
     download_url |-> OrNA(download_url), file_id |-> file_id,
     plain_text |-> PyBool(plain_text), is_attachment |-> Absent,
     has_stream_url |-> PyBool(TruthyDict(file_data)
                               /\ Truthy(Get(file_data, "streamUrl"))),
     origin |-> origin]

AttachmentRecord(file_name, file_type, section, download_url, file_id, plain_text, is_attachment, origin) ==
    [name |-> file_name, type |-> PyStr(file_type), section |-> section,
     download_url |-> OrNA(download_url), file_id |-> file_id,
     plain_text |-> PyBool(plain_text), is_attachment |-> PyBool(is_attachment),
     has_stream_url |-> Absent, origin |-> origin]

\* The dict appended for an entry without download trigger.
Placeholder(file_name, file_type, section, origin) ==
    [name |-> file_name, type |-> PyStr(file_type), section |-> section,
     download_url |-> PyStr("N/A"), file_id |-> Absent, plain_text |-> Absent,
     is_attachment |-> Absent, has_stream_url |-> Absent, origin |-> origin]

Origin(sec, i, j) == [sec |-> sec, entry |-> i, item |-> j]

\* Browser interactions, in order.
Click(sec, i) == [ev |-> "click", sec |-> sec, entry |-> i]
Close(sec, i) == [ev |-> "close", sec |-> sec, entry |-> i]
CloseFailed(sec, i) == [ev |-> "closeFailed", sec |-> sec, entry |-> i]

(***************************************************************************)
(* Fallbacks of the primary section.  The embedded viewer is absent,       *)
(* unreachable (any access raises) or present with a src; of a src the     *)
(* code uses: whether it holds the text fileId, whether its query has a    *)
(* non-blank `file` parameter, that parameter decoded, the digits after    *)
(* fileId= in it, and whether it holds plainText=true.                     *)
(***************************************************************************)
NoFileParam == [present |-> FALSE, url |-> "", digits |-> "", plainTrue |-> FALSE]
FileParam(url, digits, plainTrue) ==
    [present |-> TRUE, url |-> url, digits |-> digits, plainTrue |-> plainTrue]

IframeAbsent == [st |-> "absent", src |-> PyNone, hasFileId |-> FALSE, file |-> NoFileParam]
IframeRaises == [st |-> "raises", src |-> PyNone, hasFileId |-> FALSE, file |-> NoFileParam]
Iframe(src, hasFileId, file) ==
    [st |-> "present", src |-> src, hasFileId |-> hasFileId, file |-> file]

NoAnchors     == [st |-> "none",   href |-> PyNone]
AnchorsRaise  == [st |-> "raises", href |-> PyNone]
Anchor(href)  == [st |-> "found",  href |-> href]

\* Outcome of a fallback: the three locals it may assign.
Keep(download_url, file_id, plain_text) ==
    [raised |-> FALSE, download_url |-> download_url, file_id |-> file_id,
     plain_text |-> plain_text]

\* (a) the src of #pdfViewerIframe
IframeFallback(backend, iframe, download_url, file_id, plain_text) ==
    CASE iframe.st = "raises" ->
           [Keep(download_url, file_id, plain_text) EXCEPT !.raised = TRUE]
      [] iframe.st = "absent" ->
           \* find_element raises; locator(...).count() is just 0
           [Keep(download_url, file_id, plain_text)
                EXCEPT !.raised = (backend = "selenium")]
      [] OTHER ->
           IF Truthy(iframe.src) /\ iframe.hasFileId /\ iframe.file.present
           THEN IF iframe.file.digits # ""
                THEN Keep(PyStr(StreamUrl(PyStr(iframe.file.digits), iframe.file.plainTrue)),
                          PyStr(iframe.file.digits), iframe.file.plainTrue)
                ELSE Keep(PyStr(iframe.file.url), file_id, plain_text)
           ELSE Keep(download_url, file_id, plain_text)

\* (b) the first download-looking anchor; then "N/A" when still nothing
AnchorFallback(backend, anchors, download_url) ==
    LET found == IF anchors.st = "found" THEN anchors.href ELSE download_url
    IN  OrNA(found)

\* lines 532-564: entered only when the builder gave nothing
Fallbacks(backend, page, download_url, file_id, plain_text) ==
    LET a == IframeFallback(backend, page.iframe, download_url, file_id, plain_text)
    IN  IF ~a.raised THEN a
        ELSE Keep(AnchorFallback(backend, page.anchors, a.download_url),
                  a.file_id, a.plain_text)

(***************************************************************************)
(* One menu item.  `skip` is a continue or a swallowed exception.          *)
(***************************************************************************)
Skip        == [st |-> "skip", rec |-> Placeholder(PyNone, "", Absent, Origin("", 0, 0))]
Record(rec) == [st |-> "record", rec |-> rec]

\* x or y for two references
OrDict(x, y) == IF TruthyDict(x) THEN x ELSE y

\* FileData that prefers the trigger's reference to the item's own
FileData_TriggerFirst(it, remote_file) ==
    OrDict(remote_file, RemoteFileOf(inspect_button_handlers(it.el)))

\* file_data = menu_remote_file or remote_file
FileData(it, remote_file) ==
    OrDict(RemoteFileOf(inspect_button_handlers(it.el)), remote_file)

\* Whether the item is given up before any reference is read: no label, no
\* download element, or (Playwright) element_handle() raising.
ItemUnreadable(backend, it) ==
    \/ ~it.hasLabel
    \/ ~it.hasDl
    \/ backend = "playwright" /\ it.handleRaises

\* lines 520-530: the URL built from file_data, None without file_data
BuiltUrl(file_data, default_type, plain_text) ==
    IF TruthyDict(file_data)
    THEN build_download_url(file_data,
                            GetD(file_data, "fileType", default_type) = PyInt("3"),
                            plain_text)
    ELSE PyNone

FileIdOf(file_data) ==
    IF TruthyDict(file_data) THEN Get(file_data, "fileId") ELSE PyNone

\* lines 532-564: the fallbacks run only when the builder gave nothing
UrlOrFallbacks(backend, page, built, file_id, plain_text) ==
    IF ~Truthy(built) \/ built = PyStr("N/A")
    THEN Fallbacks(backend, page, built, file_id, plain_text)
    ELSE Keep(built, file_id, plain_text)

PrimaryRecordOf(file_name, it, f, file_data, origin) ==
    PrimaryRecord(file_name, it.label, f.download_url, f.file_id, f.plain_text,
                  file_data, origin)

PrimaryItemWith(backend, page, it, file_data, file_name, origin) ==
    Record(PrimaryRecordOf(file_name, it,
               UrlOrFallbacks(backend, page,
                              BuiltUrl(file_data, PyInt("1"), PlainTextLabel(it.label)),
                              FileIdOf(file_data), PlainTextLabel(it.label)),
               file_data, origin))

PrimaryItem(backend, page, it, remote_file, file_name, origin) ==
    IF ItemUnreadable(backend, it) THEN Skip
    ELSE PrimaryItemWith(backend, page, it, FileData(it, remote_file), file_name, origin)

\* selenium line 761 slices the built URL for a log line: None[:80] raises
\* and the item is dropped; Playwright guards the slice.
AttachmentItemBuilt(backend, it, file_data, download_url, file_name, section, origin) ==
    IF backend = "selenium" /\ TruthyDict(file_data) /\ download_url.ty = "none"
    THEN Skip
    ELSE Record(AttachmentRecord(file_name, it.label, section, download_url,
                    FileIdOf(file_data), PlainTextLabel(it.label),
                    (IF TruthyDict(file_data)
                     THEN GetD(file_data, "fileType", PyInt("3")) ELSE PyInt("3"))
                        = PyInt("3"),
                    origin))

AttachmentItemWith(backend, it, file_data, file_name, section, origin) ==
    AttachmentItemBuilt(backend, it, file_data,
                        BuiltUrl(file_data, PyInt("3"), PlainTextLabel(it.label)),
                        file_name, section, origin)

AttachmentItem(backend, it, remote_file, file_name, section, origin) ==
    IF ItemUnreadable(backend, it) THEN Skip
    ELSE AttachmentItemWith(backend, it, FileData(it, remote_file), file_name,
                            section, origin)

\* What a walk of entries yields.
Walked(files, events) == [files |-> files, events |-> events]
Nothing2 == Walked(<<>>, <<>>)
Join(a, b) == Walked(a.files \o b.files, a.events \o b.events)

\* Primary section: after menu item j was read (r) and with what the later
\* items would give (rest).  The loop ends at the first recorded item,
\* unless closing the menu raises after the append: the handler of the item
\* swallows that and the loop goes on.
PrimaryMenuStep(e, i, r, rest) ==
    IF r.st = "skip" THEN rest
    ELSE IF e.closeRaises
         THEN Join(Walked(<<r.rec>>, <<CloseFailed("files", i)>>), rest)
    ELSE Walked(<<r.rec>>, <<Close("files", i)>>)

RECURSIVE PrimaryMenu(_, _, _, _, _, _, _)
PrimaryMenu(backend, page, e, i, remote_file, file_name, j) ==
    IF j > Len(e.items) THEN Nothing2
    ELSE PrimaryMenuStep(e, i,
             PrimaryItem(backend, page, e.items[j], remote_file, file_name,
                         Origin("files", i, j)),
             PrimaryMenu(backend, page, e, i, remote_file, file_name, j + 1))

\* Attachments section: every menu item is read.
AttachmentMenuStep(r, rest) == IF r.st = "skip" THEN rest ELSE <<r.rec>> \o rest

RECURSIVE AttachmentMenu(_, _, _, _, _, _, _)
AttachmentMenu(backend, e, i, remote_file, file_name, section, j) ==
    IF j > Len(e.items) THEN <<>>
    ELSE AttachmentMenuStep(
             AttachmentItem(backend, e.items[j], remote_file, file_name, section,
                            Origin("attachments", i, j)),
             AttachmentMenu(backend, e, i, remote_file, file_name, section, j + 1))

(***************************************************************************)
(* One entry of the primary list (firestone.py:416-597).                   *)
(***************************************************************************)
\* file_name after the trigger's reference was read: Playwright keeps the
\* visible name when the reference has no name key, Selenium takes None.
TriggerFileName(backend, handlers, e) ==
    IF handlers.ok /\ TruthyDict(handlers.remoteFile)
    THEN IF backend = "playwright"
         THEN GetD(handlers.remoteFile, "name", PyStr(e.name))
         ELSE Get(handlers.remoteFile, "name")
    ELSE PyStr(e.name)

\* remote_file.get('streamUrl') on the None found under reactProps
NullReferenceRaises(handlers) ==
    FromReactProps(handlers) /\ ~handlers.reactProps.rf.isdict

\* What an exception in the trigger processing leaves behind: Playwright
\* moves on to the next entry, Selenium's bare except appends the record of
\* a trigger-less entry.
PrimaryTriggerFailed(backend, file_name, i, events) ==
    IF backend = "playwright" THEN Walked(<<>>, events)
    ELSE Walked(<<Placeholder(file_name, "Unknown", Absent, Origin("files", i, 0))>>,
                events)

\* lines 438-593: the trigger was found and its handlers inspected
PrimaryTrigger(backend, page, e, i, handlers, file_name) ==
    IF NullReferenceRaises(handlers) \/ e.clickRaises
    THEN PrimaryTriggerFailed(backend, file_name, i, <<>>)
    ELSE IF ~e.menuAppears
    THEN PrimaryTriggerFailed(backend, file_name, i, <<Click("files", i)>>)
    ELSE Join(Walked(<<>>, <<Click("files", i)>>),
              PrimaryMenu(backend, page, e, i, RemoteFileOf(handlers), file_name, 1))

PrimaryInspected(backend, page, e, i, handlers) ==
    PrimaryTrigger(backend, page, e, i, handlers, TriggerFileName(backend, handlers, e))

PrimaryEntry(backend, page, e, i) ==
    IF ~e.hasName THEN Nothing2
    ELSE IF e.trigger # "files"
    THEN Walked(<<Placeholder(PyStr(e.name), "Unknown", Absent, Origin("files", i, 0))>>,
                <<>>)
    ELSE IF backend = "playwright" /\ e.handleRaises
    THEN PrimaryTriggerFailed(backend, PyStr(e.name), i, <<>>)
    ELSE PrimaryInspected(backend, page, e, i, inspect_button_handlers(e.el))

RECURSIVE PrimarySection(_, _, _)
PrimarySection(backend, page, i) ==
    IF i > Len(page.primary) THEN Nothing2
    ELSE Join(PrimaryEntry(backend, page, page.primary[i], i),
              PrimarySection(backend, page, i + 1))

(***************************************************************************)
(* One li of the attachments list (firestone.py:611-781): a section header *)
(* with text, or a file entry under the current section.                   *)
(***************************************************************************)
\* IsSectionHeader that takes a header row without text for a header too
IsSectionHeader_AnyHeader(e) == e.isHeader

IsSectionHeader(e) == e.isHeader /\ e.headerText # ""

\* the clicks around the menu of entry i
AttachmentClicks(e, i) ==
    <<Click("attachments", i)>> \o
    (IF e.closeRaises
     THEN <<CloseFailed("attachments", i), CloseFailed("attachments", i)>>
     ELSE <<Close("attachments", i)>>)

AttachmentEntry(backend, e, i, current_section) ==
    IF ~e.hasName THEN Nothing2
    ELSE IF e.trigger \notin {"reportFiles", "attachmentFiles"}
    THEN Walked(<<Placeholder(PyStr(e.name), "Attachment", current_section,
                              Origin("attachments", i, 0))>>, <<>>)
    ELSE IF backend = "playwright" /\ e.handleRaises THEN Nothing2
    ELSE IF e.clickRaises THEN Nothing2
    ELSE IF ~e.menuAppears
    THEN Walked(<<>>, <<Click("attachments", i), Close("attachments", i)>>)
    ELSE Walked(AttachmentMenu(backend, e, i,
                               RemoteFileOf(inspect_button_handlers(e.el)),
                               PyStr(e.name), current_section, 1),
                AttachmentClicks(e, i))

RECURSIVE AttachmentsSection(_, _, _, _)
AttachmentsSection(backend, page, i, current_section) ==
    IF i > Len(page.attachments) THEN Nothing2
    ELSE IF IsSectionHeader(page.attachments[i])
    THEN AttachmentsSection(backend, page, i + 1, PyStr(page.attachments[i].headerText))
    ELSE Join(AttachmentEntry(backend, page.attachments[i], i, current_section),
              AttachmentsSection(backend, page, i + 1, current_section))

(***************************************************************************)
(* scrape_meeting_files: navigation is not guarded, a missing #files list  *)
(* gives [], a missing #AttachmentsList ends the walk with what there is.  *)
(***************************************************************************)
Returned(w) == [raised |-> FALSE, files |-> w.files, events |-> w.events]
RaisedOut   == [raised |-> TRUE, files |-> <<>>, events |-> <<>>]

scrape_meeting_files(backend, page) ==
    IF page.gotoRaises THEN RaisedOut
    ELSE IF ~page.filesFound THEN Returned(Nothing2)
    ELSE Returned(Join(PrimarySection(backend, page, 1),
                       IF page.attachmentsFound
                       THEN AttachmentsSection(backend, page, 1, PyNone)
                       ELSE Nothing2))

(***************************************************************************)
(* Files pages the walker is run on.                                       *)
(***************************************************************************)
RF_agenda     == Dict(PyInt("42"), PyInt("1"), PyStr("Agenda Packet"), Absent, TRUE)
RF_stream     == Dict(PyInt("43"), PyInt("1"), PyStr("Minutes"),
                      PyStr("https://blob.example/m.pdf?sig=1"), TRUE)
RF_attach     == Dict(PyInt("77"), PyInt("3"), PyStr("Staff Report"), Absent, TRUE)
RF_noid       == Dict(Absent, PyInt("1"), Absent, Absent, TRUE)
RF_bare       == Dict(PyInt("55"), Absent, Absent, Absent, FALSE)
RF_empty      == Dict(Absent, Absent, Absent, Absent, FALSE)
RF_streamNoId == Dict(Absent, PyInt("1"), PyStr("Notice"),
                      PyStr("https://blob.example/n.pdf?sig=2"), TRUE)
RF_nullName   == Dict(PyInt("44"), PyInt("1"), PyNone, Absent, TRUE)
RF_nullType   == Dict(PyInt("66"), PyNone, Absent, Absent, FALSE)

Item(label, el) ==
    [hasLabel |-> TRUE, label |-> label, hasDl |-> TRUE, handleRaises |-> FALSE,
     el |-> el]

FileEntry(name, trigger, el, items) ==
    [isHeader |-> FALSE, headerText |-> "", hasName |-> TRUE, name |-> name,
     trigger |-> trigger, handleRaises |-> FALSE, el |-> el, clickRaises |-> FALSE,
     menuAppears |-> TRUE, items |-> items, closeRaises |-> FALSE]

Header(text) ==
    [isHeader |-> TRUE, headerText |-> text, hasName |-> FALSE, name |-> "",
     trigger |-> "none", handleRaises |-> FALSE, el |-> El_none,
     clickRaises |-> FALSE, menuAppears |-> TRUE, items |-> <<>>,
     closeRaises |-> FALSE]

I_pdf   == Item("PDF", El_own(RF_agenda))
I_plain == Item("Plain Text", El_own(RF_agenda))

P_ok        == FileEntry("Agenda", "files", El_anc(RF_agenda), <<I_pdf>>)
P_noTrigger == FileEntry("Minutes", "none", El_none, <<>>)

PrimaryBasic == {P_ok, P_noTrigger}

\* entries whose reference gives the builder nothing
PrimaryNeedy ==
    { [P_ok EXCEPT !.el = El_fails, !.items = <<Item("PDF", El_none)>>],
      [P_ok EXCEPT !.el = El_none, !.items = <<Item("PDF", El_own(RF_noid))>>],
      [P_ok EXCEPT !.el = El_own(RF_empty), !.items = <<Item("Plain Text", El_own(RF_empty))>>],
      [P_ok EXCEPT !.items = <<Item("PDF", El_own(RF_streamNoId))>>] }

PrimaryExotic ==
    PrimaryNeedy \cup
    { [P_ok EXCEPT !.hasName = FALSE],
      [P_ok EXCEPT !.handleRaises = TRUE],
      [P_ok EXCEPT !.clickRaises = TRUE],
      [P_ok EXCEPT !.menuAppears = FALSE],
      [P_ok EXCEPT !.items = <<>>],
      [P_ok EXCEPT !.el = El_null],
      [P_ok EXCEPT !.el = El_own(RF_bare)],
      [P_ok EXCEPT !.el = El_own(RF_nullName)],
      [P_ok EXCEPT !.el = El_pending(RF_agenda), !.items = <<Item("PDF", El_none)>>],
      [P_ok EXCEPT !.items = <<Item("Agenda (Plain Text)", El_none)>>],
      [P_ok EXCEPT !.items = <<Item("plain text", El_own(RF_bare))>>],
      [P_ok EXCEPT !.items = <<Item("PDF", El_own(RF_stream))>>],
      [P_ok EXCEPT !.items = <<Item("PDF", El_own(RF_attach))>>],
      [P_ok EXCEPT !.items = <<Item("PDF", El_own(RF_empty))>>],
      [P_ok EXCEPT !.items = <<Item("PDF", El_own(RF_nullType))>>],
      [P_ok EXCEPT !.items = <<I_pdf, I_plain>>],
      [P_ok EXCEPT !.items = <<[I_pdf EXCEPT !.hasLabel = FALSE], I_plain>>],
      [P_ok EXCEPT !.items = <<[I_pdf EXCEPT !.hasDl = FALSE], I_plain>>],
      [P_ok EXCEPT !.items = <<[I_pdf EXCEPT !.handleRaises = TRUE], I_plain>>],
      [P_ok EXCEPT !.items = <<I_pdf, I_plain>>, !.closeRaises = TRUE] }

J_pdf   == Item("PDF", El_own(RF_attach))
J_plain == Item("Plain Text", El_own(RF_attach))

A_ok        == FileEntry("Staff Report", "reportFiles", El_anc(RF_attach), <<J_pdf, J_plain>>)
A_noTrigger == FileEntry("Public Comment", "none", El_none, <<>>)
A_header    == Header("Reports")

AttachBasic == {A_header, A_ok, A_noTrigger}

AttachExotic ==
    { Header(""),
      Header("Consent"),
      [A_ok EXCEPT !.trigger = "attachmentFiles"],
      [A_ok EXCEPT !.trigger = "files"],
      [A_ok EXCEPT !.hasName = FALSE],
      [A_ok EXCEPT !.handleRaises = TRUE],
      [A_ok EXCEPT !.clickRaises = TRUE],
      [A_ok EXCEPT !.menuAppears = FALSE],
      [A_ok EXCEPT !.closeRaises = TRUE],
      [A_ok EXCEPT !.items = <<>>],
      [A_ok EXCEPT !.el = El_none, !.items = <<Item("PDF", El_none)>>],
      [A_ok EXCEPT !.items = <<Item("PDF", El_own(RF_noid)), J_plain>>],
      [A_ok EXCEPT !.items = <<Item("PDF", El_own(RF_streamNoId))>>],
      [A_ok EXCEPT !.items = <<Item("PDF", El_own(RF_bare))>>],
      [A_ok EXCEPT !.items = <<Item("PDF", El_own(RF_empty))>>],
      [A_ok EXCEPT !.items = <<Item("PDF", El_own(RF_nullType))>>],
      [A_ok EXCEPT !.items = <<Item("Plain Text", El_own(RF_agenda))>>],
      [A_ok EXCEPT !.items = <<Item("PDF", El_own(RF_stream))>>],
      [A_ok EXCEPT !.items = <<[J_pdf EXCEPT !.hasDl = FALSE], J_plain>>],
      [A_ok EXCEPT !.items = <<[J_pdf EXCEPT !.handleRaises = TRUE], J_plain>>] }

ViewerUrl == "https://example.org/pdfjs/viewer.html"

IframeStates ==
    { IframeAbsent, IframeRaises,
      Iframe(PyNone, FALSE, NoFileParam),
      Iframe(PyStr(ViewerUrl), FALSE, NoFileParam),
      Iframe(PyStr(ViewerUrl \o "?file=&from=fileId"), TRUE, NoFileParam),
      Iframe(PyStr(ViewerUrl \o "?file=%2Fdocs%2Fview%3FfileId%3Dabc"), TRUE,
             FileParam("/docs/view?fileId=abc", "", FALSE)),
      Iframe(PyStr(ViewerUrl \o "?file=%2FGet(fileId%3D9%2CplainText%3Dfalse)"), TRUE,
             FileParam("/Get(fileId=9,plainText=false)", "9", FALSE)),
      Iframe(PyStr(ViewerUrl \o "?file=%2FGet(fileId%3D9%2CplainText%3Dtrue)"), TRUE,
             FileParam("/Get(fileId=9,plainText=true)", "9", TRUE)) }

AnchorStates ==
    { NoAnchors, AnchorsRaise, Anchor(PyNone), Anchor(PyStr("")),
      Anchor(PyStr("https://example.org/download/7")) }

MaxPrimary == 3
MaxAttach  == 3

SeqsUpTo(S, n) == UNION { [1..k -> S] : k \in 0..n }

\* sequences with at most one entry out of X, the others out of B
MostlyBasic(B, X, n) ==
    { q \in SeqsUpTo(B \cup X, n) : Cardinality({ k \in DOMAIN q : q[k] \in X }) <= 1 }

FilesPage(primary, attachments, iframe, anchors) ==
    [gotoRaises |-> FALSE, filesFound |-> TRUE, attachmentsFound |-> TRUE,
     primary |-> primary, attachments |-> attachments,
     iframe |-> iframe, anchors |-> anchors]

PlainPage == FilesPage(<<P_ok, P_noTrigger>>, <<A_header, A_ok>>, IframeAbsent, NoAnchors)

FilesPages ==
    { FilesPage(q, a, IframeAbsent, NoAnchors) :
        q \in MostlyBasic(PrimaryBasic, PrimaryExotic, MaxPrimary),
        a \in {<<>>, <<A_header, A_ok>>} }
    \cup
    { FilesPage(q, <<>>, f, h) :
        q \in SeqsUpTo(PrimaryNeedy \cup {P_ok}, 2) \ {<<>>},
        f \in IframeStates, h \in AnchorStates }
    \cup
    { FilesPage(q, a, IframeAbsent, NoAnchors) :
        q \in {<<>>, <<P_ok>>},
        a \in MostlyBasic(AttachBasic, AttachExotic, MaxAttach) }
    \cup
    { [PlainPage EXCEPT !.gotoRaises = TRUE],
      [PlainPage EXCEPT !.filesFound = FALSE],
      [PlainPage EXCEPT !.attachmentsFound = FALSE] }

WalkInit ==
    /\ wk_pc = "start"
    /\ wk_backend \in Backends
    /\ wk_page \in FilesPages
    /\ wk_files = <<>>
    /\ wk_events = <<>>

WalkIdle ==
    /\ wk_pc = "idle"
    /\ wk_backend = "playwright"
    /\ wk_page = PlainPage
    /\ wk_files = <<>>
    /\ wk_events = <<>>

\* page.goto / driver.get, then the wait for #files
OpenFilesPage ==
    /\ wk_pc = "start"
    /\ wk_pc' = IF wk_page.gotoRaises THEN "raised"
                ELSE IF ~wk_page.filesFound THEN "returned"
                ELSE "primary"
    /\ UNCHANGED <<wk_backend, wk_page, wk_files, wk_events>>

WalkPrimary ==
    /\ wk_pc = "primary"
    /\ \E p \in {PrimarySection(wk_backend, wk_page, 1)} :
          /\ wk_files' = wk_files \o p.files
          /\ wk_events' = wk_events \o p.events
    /\ wk_pc' = "attachments"
    /\ UNCHANGED <<wk_backend, wk_page>>

WalkAttachments ==
    /\ wk_pc = "attachments"
    /\ \E a \in {IF wk_page.attachmentsFound
                  THEN AttachmentsSection(wk_backend, wk_page, 1, PyNone)
                  ELSE Nothing2} :
          /\ wk_files' = wk_files \o a.files
          /\ wk_events' = wk_events \o a.events
    /\ wk_pc' = "returned"
    /\ UNCHANGED <<wk_backend, wk_page>>

(***************************************************************************)
(* Meeting Lister: scrape_meetings (firestone.py:271-378).  An li of the   *)
(* event list has an anchor with an href or not; reading it may raise.     *)
(* The event id of the i-th li is i.                                       *)
(***************************************************************************)
Li(dates, page) ==
    [hasAnchor |-> TRUE, href |-> "/event/files", raises |-> FALSE,
     dates |-> dates, page |-> page]

Meeting(event_id, date) ==
    [event_id |-> event_id, date |-> date, hasFiles |-> FALSE, files |-> <<>>]

\* the body of the loop over the li: what it appends
LiMeeting(i, d) == IF d.raised THEN <<>> ELSE <<Meeting(i, d.date)>>

LiStep(li, i) ==
    IF ~li.hasAnchor \/ li.href = "" \/ li.raises THEN <<>>
    ELSE LiMeeting(i, extract_meeting_date(li.dates))

RECURSIVE LiLoop(_, _)
LiLoop(entries, i) ==
    IF i > Len(entries) THEN <<>>
    ELSE LiStep(entries[i], i) \o LiLoop(entries, i + 1)

\* the body of the try: a wait that fails (the index does not render) is
\* caught there and gives []
scrape_meetings(s) == IF s.fails THEN <<>> ELSE LiLoop(s.entries, 1)

(***************************************************************************)
(* Browser sessions.  A session is "none" (nothing was launched), "open",  *)
(* "closed" (every close call was made), "stopped" (Playwright: a close    *)
(* call was not made or failed, and the block `with sync_playwright()` was *)
(* left), "leaked" (Selenium: the driver was launched and quit() never     *)
(* called) or "quitFailed" (Selenium: quit() raised).                      *)
(* A phase may meet one fault: the launch fails, a setup call after the    *)
(* launch fails, the navigation to the index fails, or a close call fails. *)
(***************************************************************************)
ListFaults == {"none", "launch", "setup", "goto", "close"}

Phase(raised, ms, sess) == [raised |-> raised, meetings |-> ms, session |-> sess]

\* the finally: driver.quit(), or context.close() then browser.close()
AfterClose(backend, closeRaises) ==
    IF ~closeRaises THEN "closed"
    ELSE IF backend = "selenium" THEN "quitFailed"
    ELSE "stopped"

\* selenium firestone.py:302-429: webdriver.Chrome, execute_cdp_cmd and
\* driver.get(base_url) all stand before the try
ListingSelenium(s, fault) ==
    CASE fault = "launch"           -> Phase(TRUE, <<>>, "none")
      [] fault \in {"setup", "goto"} -> Phase(TRUE, <<>>, "leaked")
      [] fault = "close"            -> Phase(TRUE, <<>>, AfterClose("selenium", TRUE))
      [] OTHER                      -> Phase(FALSE, scrape_meetings(s),
                                             AfterClose("selenium", FALSE))

\* playwright firestone.py:271-378: launch, get_browser_context and
\* new_page stand before the try, inside the with block; page.goto is the
\* first statement of the try
ListingPlaywright(s, fault) ==
    CASE fault = "launch" -> Phase(TRUE, <<>>, "none")
      [] fault = "setup"  -> Phase(TRUE, <<>>, "stopped")
      [] fault = "goto"   -> Phase(FALSE, <<>>, AfterClose("playwright", FALSE))
      [] fault = "close"  -> Phase(TRUE, <<>>, AfterClose("playwright", TRUE))
      [] OTHER            -> Phase(FALSE, scrape_meetings(s),
                                   AfterClose("playwright", FALSE))

ListingPhase(backend, s, fault) ==
    IF backend = "selenium" THEN ListingSelenium(s, fault)
    ELSE ListingPlaywright(s, fault)

Listing(fault, raised, sess) == [fault |-> fault, raised |-> raised, session |-> sess]
NoListing == Listing("none", FALSE, "none")

(***************************************************************************)
(* filter_meetings_by_date_range (base.py:99-127) and the limit            *)
(* meetings[-N:] (base.py:181-186, scraper_cli.py:143-145).                *)
(***************************************************************************)
IsDate(d) == d # NoDate

DateLT(a, b) ==
    \/ a.y < b.y
    \/ a.y = b.y /\ a.m < b.m
    \/ a.y = b.y /\ a.m = b.m /\ a.d < b.d

FilterStep_Exclusive(m, start_date, end_date) ==
    IF ~IsDate(m.date) THEN <<>>
    ELSE IF IsDate(start_date) /\ ~DateLT(start_date, m.date) THEN <<>>
    ELSE IF IsDate(end_date) /\ DateLT(end_date, m.date) THEN <<>>
    ELSE <<m>>

FilterStep(m, start_date, end_date) ==
    IF ~IsDate(m.date) THEN <<>>
    ELSE IF IsDate(start_date) /\ DateLT(m.date, start_date) THEN <<>>
    ELSE IF IsDate(end_date) /\ DateLT(end_date, m.date) THEN <<>>
    ELSE <<m>>

RECURSIVE FilterLoop(_, _, _, _)
FilterLoop(ms, start_date, end_date, i) ==
    IF i > Len(ms) THEN <<>>
    ELSE FilterStep(ms[i], start_date, end_date)
             \o FilterLoop(ms, start_date, end_date, i + 1)

filter_meetings_by_date_range(ms, start_date, end_date) ==
    IF ~IsDate(start_date) /\ ~IsDate(end_date) THEN ms
    ELSE FilterLoop(ms, start_date, end_date, 1)

\* max_meetings / --meeting-count: None or an int
NoCount  == [given |-> FALSE, n |-> 0]
Count(n) == [given |-> TRUE, n |-> n]

\* ms[-n:] for n > 0
LastN(ms, n) == IF n >= Len(ms) THEN ms ELSE SubSeq(ms, Len(ms) - n + 1, Len(ms))

LimitTo_First(ms, count) ==
    IF count.given /\ count.n > 0
    THEN (IF count.n >= Len(ms) THEN ms ELSE SubSeq(ms, 1, count.n))
    ELSE ms

LimitTo(ms, count) ==
    IF count.given /\ count.n > 0 THEN LastN(ms, count.n) ELSE ms

(***************************************************************************)
(* The command line (scraper_cli.py:110-130).  The text given for --start  *)
(* or --end is not given, empty, some other text, or of the shape          *)
(* <digits>-<digits>-<digits> with yd digits for the year, possibly with   *)
(* further text behind it.                                                 *)
(***************************************************************************)
NotGiven    == [given |-> FALSE, kind |-> "none", y |-> 0, yd |-> 0, m |-> 0, d |-> 0,
                rest |-> FALSE]
EmptyText   == [NotGiven EXCEPT !.given = TRUE, !.kind = "empty"]
GarbageText == [NotGiven EXCEPT !.given = TRUE, !.kind = "garbage"]
Ymd(y, yd, m, d, rest) ==
    [given |-> TRUE, kind |-> "ymd", y |-> y, yd |-> yd, m |-> m, d |-> d, rest |-> rest]

\* datetime.strptime(text, '%Y-%m-%d').date(): %Y is four digits, nothing
\* may be left over, and the fields must name a day; else ValueError
strptime_date(t) ==
    LET ok == t.kind = "ymd" /\ t.yd = 4 /\ ~t.rest /\ ValidDate(t.y, t.m, t.d)
    IN  [ok |-> ok, date |-> IF ok THEN Date(t.y, t.m, t.d) ELSE NoDate]

\* `if args.start:` - None and the empty text are both skipped
TextGiven(t) == t.given /\ t.kind # "empty"

\* lines 110-130: [ok, start_date, end_date]; not ok is diagnostic and return
Parsed(ok, start_date, end_date) ==
    [ok |-> ok, start_date |-> start_date, end_date |-> end_date]

CheckOrder(start_date, end_date) ==
    IF IsDate(start_date) /\ IsDate(end_date) /\ DateLT(end_date, start_date)
    THEN Parsed(FALSE, NoDate, NoDate)
    ELSE Parsed(TRUE, start_date, end_date)

ParseEnd(start_date, t) ==
    IF ~TextGiven(t) THEN CheckOrder(start_date, NoDate)
    ELSE IF ~strptime_date(t).ok THEN Parsed(FALSE, NoDate, NoDate)
    ELSE CheckOrder(start_date, strptime_date(t).date)

ParseDates(av) ==
    IF ~TextGiven(av.start) THEN ParseEnd(NoDate, av.end)
    ELSE IF ~strptime_date(av.start).ok THEN Parsed(FALSE, NoDate, NoDate)
    ELSE ParseEnd(strptime_date(av.start).date, av.end)

Argv(start, end) == [start |-> start, end |-> end]
NoArgv == Argv(NotGiven, NotGiven)

(***************************************************************************)
(* The run: scraper_cli.main in its meetings-only mode, else               *)
(* scrape_meetings_with_files (base.py:129-279).                           *)
(***************************************************************************)
Args(backend, meetings_only, download_files, use_click_download, count, start_date, end_date) ==
    [backend |-> backend, meetings_only |-> meetings_only,
     download_files |-> download_files, use_click_download |-> use_click_download,
     max_meetings |-> count, start_date |-> start_date, end_date |-> end_date]

\* main parses the dates; a diagnostic ends it before a scraper is created
ParseArgs ==
    /\ pc = "cli"
    /\ \E r \in {ParseDates(argv)} :
          /\ args' = [args EXCEPT !.start_date = r.start_date, !.end_date = r.end_date]
          /\ pc' = IF r.ok THEN "start" ELSE "done"
    /\ UNCHANGED <<site, argv, listing, listed, filtered, meetings, idx, scraped,
                   downloads, session, aborted>>

\* scrape_meetings, called by main (meetings only: scraper_cli.py:137, not
\* guarded) or by scrape_meetings_with_files (base.py:146-153, which turns
\* an exception into `return []`, as it does an empty list)
ListMeetings ==
    /\ pc = "start"
    /\ \E fault \in ListFaults :
       \E r \in {ListingPhase(args.backend, site, fault)} :
          /\ listing' = Listing(fault, r.raised, r.session)
          /\ listed' = r.meetings
          /\ meetings' = r.meetings
          /\ pc' = IF args.meetings_only
                   THEN (IF r.raised THEN "raised" ELSE "listed")
                   ELSE (IF r.meetings = <<>> THEN "done" ELSE "listed")
    /\ UNCHANGED <<site, argv, args, filtered, idx, scraped, downloads, session, aborted>>

\* `if start_date or end_date:` then the filter; with files an empty result
\* ends the run with []
FilterByDate ==
    /\ pc = "listed"
    /\ meetings' = IF IsDate(args.start_date) \/ IsDate(args.end_date)
                   THEN filter_meetings_by_date_range(meetings, args.start_date,
                                                      args.end_date)
                   ELSE meetings
    /\ filtered' = meetings'
    /\ pc' = IF ~args.meetings_only /\ meetings' = <<>> THEN "done" ELSE "filtered"
    /\ UNCHANGED <<site, argv, args, listing, listed, idx, scraped, downloads, session, aborted>>

LimitMeetings ==
    /\ pc = "filtered"
    /\ meetings' = LimitTo(meetings, args.max_meetings)
    /\ pc' = IF args.meetings_only THEN "done" ELSE "limited"
    /\ UNCHANGED <<site, argv, args, listing, listed, filtered, idx, scraped, downloads, session, aborted>>

\* the browser of the files phase is launched and set up, before the try
\* (selenium base.py:201-210; playwright base.py:190-205, in the with block)
SessionAfter(backend, fault) ==
    CASE fault = "launch" -> "none"
      [] fault = "setup"  -> IF backend = "selenium" THEN "leaked" ELSE "stopped"
      [] OTHER            -> "open"

OpenSession ==
    /\ pc = "limited"
    /\ \E fault \in {"none", "launch", "setup"} :
          /\ session' = SessionAfter(args.backend, fault)
          /\ pc' = IF fault = "none" THEN "loop" ELSE "raised"
    /\ idx' = 1
    /\ UNCHANGED <<site, argv, args, listing, listed, filtered, meetings, scraped, downloads, aborted>>

WithFiles(ms, i, files) == [ms EXCEPT ![i].hasFiles = TRUE, ![i].files = files]

\* base.py:209-224: scrape_meeting_files for meetings[idx]; when it raises
\* the meeting gets files = [] and the loop continues
ScrapeFiles ==
    /\ pc = "loop"
    /\ idx <= Len(meetings)
    /\ \E r \in {scrape_meeting_files(args.backend,
                                      site.entries[meetings[idx].event_id].page)} :
          /\ meetings' = WithFiles(meetings, idx, IF r.raised THEN <<>> ELSE r.files)
          /\ IF ~r.raised /\ args.download_files
             THEN pc' = "download" /\ idx' = idx
             ELSE pc' = "loop" /\ idx' = idx + 1
    /\ scraped' = Append(scraped, meetings[idx].event_id)
    /\ UNCHANGED <<site, argv, args, listing, listed, filtered, downloads, session, aborted>>

(***************************************************************************)
(* The name a file is saved under (base.py:237-252).  Text is a sequence   *)
(* of characters; the regular expressions see of a character only whether  *)
(* it is a word character (letter, digit, underscore), whitespace, the     *)
(* hyphen, or anything else.                                               *)
(***************************************************************************)
WordChars ==
    {"a", "b", "c", "d", "e", "f", "g", "h", "i", "j", "k", "l", "m", "n", "o", "p",
     "q", "r", "s", "t", "u", "v", "w", "x", "y", "z",
     "A", "B", "C", "D", "E", "F", "G", "H", "I", "J", "K", "L", "M", "N", "O", "P",
     "Q", "R", "S", "T", "U", "V", "W", "X", "Y", "Z",
     "0", "1", "2", "3", "4", "5", "6", "7", "8", "9", "_"}

SpaceChars == {" ", "\t", "\n"}

\* re.sub(r'[^\w\s-]', '', name)
RemoveOthers(cs) ==
    SelectSeq(cs, LAMBDA c : c \in WordChars \/ c \in SpaceChars \/ c = "-")

\* str.strip(): whitespace off both ends
RECURSIVE LStrip(_)
LStrip(cs) ==
    IF cs # <<>> /\ Head(cs) \in SpaceChars THEN LStrip(Tail(cs)) ELSE cs

RECURSIVE RStrip(_)
RStrip(cs) ==
    IF cs # <<>> /\ cs[Len(cs)] \in SpaceChars
    THEN RStrip(SubSeq(cs, 1, Len(cs) - 1)) ELSE cs

Strip(cs) == RStrip(LStrip(cs))

\* re.sub(r'[-\s]+', '-', s): every maximal run of hyphens and whitespace
\* becomes one hyphen
RECURSIVE CollapseRuns(_)
CollapseRuns(cs) ==
    IF cs = <<>> THEN <<>>
    ELSE IF Head(cs) \in SpaceChars \/ Head(cs) = "-"
    THEN IF Len(cs) > 1 /\ (cs[2] \in SpaceChars \/ cs[2] = "-")
         THEN CollapseRuns(Tail(cs))
         ELSE <<"-">> \o CollapseRuns(Tail(cs))
    ELSE <<Head(cs)>> \o CollapseRuns(Tail(cs))

\* safe_name without its second substitution
safe_name_NoCollapse(cs) == Strip(RemoveOthers(cs))

\* base.py:249-250
safe_name(cs) == CollapseRuns(Strip(RemoveOthers(cs)))

\* base.py:241-246: .txt for a truthy plain_text, .pdf in every other case
Ext(plain_text) ==
    IF Truthy(plain_text) THEN <<".", "t", "x", "t">> ELSE <<".", "p", "d", "f">>

\* base.py:228, 251-252: <download_dir>/event_<event_id>/<safe_name><ext>
FilePath(download_dir, event_id, cs, plain_text) ==
    [dir |-> download_dir, event |-> event_id,
     filename |-> safe_name(cs) \o Ext(plain_text)]

NoPath == [dir |-> "", event |-> 0, filename |-> <<>>]

DownloadDir == "downloads"

\* the characters of the file names of the fixtures
NameChars(s) ==
    CASE s = "Agenda" ->
             <<"A", "g", "e", "n", "d", "a">>
      [] s = "Minutes" ->
             <<"M", "i", "n", "u", "t", "e", "s">>
      [] s = "Staff Report" ->
             <<"S", "t", "a", "f", "f", " ", "R", "e", "p", "o", "r", "t">>
      [] s = "Public Comment" ->
             <<"P", "u", "b", "l", "i", "c", " ", "C", "o", "m", "m", "e", "n", "t">>
      [] s = "Agenda Packet" ->
             <<"A", "g", "e", "n", "d", "a", " ", "P", "a", "c", "k", "e", "t">>
      [] s = "Notice" ->
             <<"N", "o", "t", "i", "c", "e">>
      [] s = "Agenda: Packet #1 (Final)" ->
             <<"A", "g", "e", "n", "d", "a", ":", " ", "P", "a", "c", "k", "e", "t", " ", "#", "1", " ", "(", "F", "i", "n", "a", "l", ")">>
      [] s = "Agenda Packet 1 Final" ->
             <<"A", "g", "e", "n", "d", "a", " ", "P", "a", "c", "k", "e", "t", " ", "1", " ", "F", "i", "n", "a", "l">>
      [] s = " Staff  Report - v2 " ->
             <<" ", "S", "t", "a", "f", "f", " ", " ", "R", "e", "p", "o", "r", "t", " ", "-", " ", "v", "2", " ">>
      [] OTHER -> <<>>

\* File names the naming is run on: a letter, a digit, the underscore, two
\* kinds of whitespace, the hyphen, and two characters that are removed.
NameAlphabet == {"a", "1", "_", " ", "\t", "-", ":", "/"}

MaxNameLen == 4

NameInput(cs, plain_text, event_id) ==
    [name |-> cs, plain_text |-> plain_text, event_id |-> event_id]

NameInit ==
    /\ fn_pc = "call"
    /\ fn_in \in { NameInput(cs, pt, 1) :
                      cs \in SeqsUpTo(NameAlphabet, MaxNameLen)
                             \cup {NameChars("Agenda: Packet #1 (Final)"),
                                   NameChars(" Staff  Report - v2 ")},
                      pt \in {Absent, PyFalse, PyTrue} }
    /\ fn_out = NoPath

NameIdle ==
    /\ fn_pc = "idle"
    /\ fn_in = NameInput(<<>>, Absent, 0)
    /\ fn_out = NoPath

\* base.py:241-252 for one record with a usable URL
SaveAs ==
    /\ fn_pc = "call"
    /\ fn_out' = FilePath(DownloadDir, fn_in.event_id, fn_in.name, fn_in.plain_text)
    /\ fn_pc' = "done"
    /\ UNCHANGED fn_in

Attempt(event_id, k, url, ok, via, path) ==
    [event_id |-> event_id, k |-> k, url |-> url, ok |-> ok, via |-> via,
     path |-> path]

Fetched(raised, attempts) == [raised |-> raised, attempts |-> attempts]

\* download_file (base.py:78-97): the request, raise_for_status and the
\* write are all inside one try; any exception is printed and gives False
FetchOutcomes == {"ok", "network", "status", "write"}

download_file(outcome) == outcome = "ok"

\* DirectStep that skips a record only when it has no URL at all
DirectStep_NoSkip(f, event_id, k, failAt, failure, rest) ==
    IF ~Truthy(f.download_url) THEN rest
    ELSE IF f.name.ty # "str" THEN Fetched(TRUE, <<>>)
    ELSE Fetched(rest.raised,
                 <<Attempt(event_id, k, f.download_url,
                           download_file(IF failAt = k THEN failure ELSE "ok"), "fetch",
                           FilePath(DownloadDir, event_id, NameChars(f.name.v),
                                    f.plain_text))>>
                     \o rest.attempts)

\* base.py:236-261 for the k-th record: no usable URL is a skip; the save
\* path is built with re.sub on the name, a TypeError when the name is
\* None; download_file returns False on any failure of the fetch
DirectStep(f, event_id, k, failAt, failure, rest) ==
    IF ~Truthy(f.download_url) \/ f.download_url = PyStr("N/A") THEN rest
    ELSE IF f.name.ty # "str" THEN Fetched(TRUE, <<>>)
    ELSE Fetched(rest.raised,
                 <<Attempt(event_id, k, f.download_url,
                           download_file(IF failAt = k THEN failure ELSE "ok"), "fetch",
                           FilePath(DownloadDir, event_id, NameChars(f.name.v),
                                    f.plain_text))>>
                     \o rest.attempts)

RECURSIVE DirectLoop(_, _, _, _, _)
DirectLoop(files, event_id, failAt, failure, k) ==
    IF k > Len(files) THEN Fetched(FALSE, <<>>)
    ELSE DirectStep(files[k], event_id, k, failAt, failure,
                    DirectLoop(files, event_id, failAt, failure, k + 1))

\* _download_files_via_clicks: its navigation is not guarded
ClickThrough(event_id, gotoRaises) ==
    IF gotoRaises THEN Fetched(TRUE, <<>>)
    ELSE Fetched(FALSE, <<Attempt(event_id, 0, PyNone, TRUE, "click", NoPath)>>)

\* base.py:227-261: the download phase of meetings[idx], outside the
\* handler of the meeting: whatever it raises reaches the outer handler,
\* which returns
DownloadPhase(m, fault, failAt, failure) ==
    IF fault = "makedirs" THEN Fetched(TRUE, <<>>)
    ELSE IF args.use_click_download THEN ClickThrough(m.event_id, fault = "goto")
    ELSE DirectLoop(m.files, m.event_id, failAt, failure, 1)

DownloadFiles ==
    /\ pc = "download"
    /\ \E fault \in {"none", "makedirs", "goto"}, failAt \in 0..Len(meetings[idx].files),
          failure \in FetchOutcomes \ {"ok"} :
       \E d \in {DownloadPhase(meetings[idx], fault, failAt, failure)} :
          /\ downloads' = downloads \o d.attempts
          /\ aborted' = d.raised
          /\ IF d.raised
             THEN pc' = "closing" /\ idx' = idx
             ELSE pc' = "loop" /\ idx' = idx + 1
    /\ UNCHANGED <<site, argv, args, listing, listed, filtered, meetings, scraped, session>>

\* the finally of the files phase, then the return of `meetings`
CloseSession ==
    /\ \/ pc = "closing"
       \/ pc = "loop" /\ idx > Len(meetings)
    /\ \E closeRaises \in BOOLEAN :
          /\ session' = AfterClose(args.backend, closeRaises)
          /\ pc' = IF closeRaises THEN "raised" ELSE "done"
    /\ UNCHANGED <<site, argv, args, listing, listed, filtered, meetings, idx, scraped, downloads, aborted>>

(***************************************************************************)
(* Portals and options the run is started with.                            *)
(***************************************************************************)
Aug13 == Date(2025, 8, 13)
Aug14 == Date(2025, 8, 14)
Aug15 == Date(2025, 8, 15)

Dates(data_date, aria_label, h2) ==
    [data_date |-> data_date, aria_label |-> aria_label, aria_raises |-> FALSE,
     h2 |-> h2]

D_iso13  == Dates(Iso(2025, 8, 13, 18, 0, 0, ZoneZ), NoText, NoText)
D_aria14 == Dates(NoAttr, Text(<<W_on, W_Wednesday, W_Aug, Num(14, 2), Num(2025, 4),
                                 Num(6, 1), W_PM>>), NoText)
D_h2x15  == Dates(NoAttr, NoText, Text(<<W_Aug, Num(15, 2), Num(2025, 4)>>))
D_none   == Dates(NoAttr, NoText, NoText)
D_feb30  == Dates(NoAttr, Text(<<W_Wednesday, W_Feb, Num(30, 2), Num(2025, 4)>>),
                  Text(<<W_Aug, Num(15, 2), Num(2025, 4)>>))

\* a files page whose only file has a reference without name
NamelessPage ==
    FilesPage(<<[P_ok EXCEPT !.el = El_own(RF_bare)]>>, <<>>, IframeAbsent, NoAnchors)

ListEntries ==
    { Li(d, PlainPage) : d \in {D_iso13, D_aria14, D_h2x15, D_none, D_feb30} }
    \cup { [Li(D_aria14, PlainPage) EXCEPT !.href = ""],
           [Li(D_aria14, PlainPage) EXCEPT !.raises = TRUE] }

BatchEntries ==
    { Li(D_iso13, PlainPage),
      Li(D_aria14, [PlainPage EXCEPT !.gotoRaises = TRUE]),
      Li(D_none, NamelessPage),
      Li(D_h2x15, [PlainPage EXCEPT !.filesFound = FALSE]) }

MaxListed   == 3
MaxMeetings == 3
MaxCount    == 2

Site(fails, entries) == [fails |-> fails, entries |-> entries]

ListSites ==
    { Site(FALSE, q) : q \in SeqsUpTo(ListEntries, MaxListed) }
    \cup { Site(TRUE, <<Li(D_iso13, PlainPage)>>) }

ListArgs ==
    { Args("playwright", mo, FALSE, FALSE, NoCount, s, e) :
        mo \in BOOLEAN, s \in {NoDate, Aug13, Aug14, Aug15},
        e \in {NoDate, Aug13, Aug14, Aug15} }

BatchSites ==
    { Site(FALSE, q) : q \in SeqsUpTo(BatchEntries, MaxMeetings) }
    \cup { Site(TRUE, <<Li(D_iso13, PlainPage)>>) }

Modes == { <<TRUE, FALSE, FALSE>>, <<FALSE, FALSE, FALSE>>, <<FALSE, TRUE, FALSE>>,
           <<FALSE, TRUE, TRUE>> }

BatchArgs ==
    { Args(b, mode[1], mode[2], mode[3], c, r[1], r[2]) :
        b \in Backends, mode \in Modes,
        c \in {NoCount} \cup { Count(n) : n \in (-1)..MaxCount },
        r \in { <<NoDate, NoDate>>, <<Aug14, NoDate>> } }

RunStart ==
    /\ argv = NoArgv
    /\ pc = "start"
    /\ listing = NoListing
    /\ listed = <<>>
    /\ filtered = <<>>
    /\ meetings = <<>>
    /\ idx = 0
    /\ scraped = <<>>
    /\ downloads = <<>>
    /\ session = "none"
    /\ aborted = FALSE

RunInit == site \in BatchSites /\ args \in BatchArgs /\ RunStart

ListInit == site \in ListSites /\ args \in ListArgs /\ RunStart

\* Command lines main is started with: "2025-08-13" and so on, a day that
\* does not exist, a month that does not exist, a two-digit year, a date
\* with a time behind it, and the year 0000.
RawDates ==
    { NotGiven, EmptyText, GarbageText,
      Ymd(2025, 4, 8, 13, FALSE), Ymd(2025, 4, 8, 14, FALSE), Ymd(2025, 4, 8, 15, FALSE),
      Ymd(2025, 4, 2, 30, FALSE), Ymd(2025, 4, 13, 1, FALSE), Ymd(25, 2, 8, 14, FALSE),
      Ymd(2025, 4, 8, 14, TRUE), Ymd(0, 4, 1, 1, FALSE) }

MaxCliListed == 2

CliSites ==
    { Site(FALSE, q) :
        q \in SeqsUpTo({Li(D_iso13, PlainPage), Li(D_aria14, PlainPage)}, MaxCliListed) }
    \cup { Site(TRUE, <<Li(D_iso13, PlainPage)>>) }

CliArgs ==
    { Args(b, mo, FALSE, FALSE, NoCount, NoDate, NoDate) :
        b \in Backends, mo \in BOOLEAN }

CliInit ==
    /\ site \in CliSites
    /\ argv \in { Argv(a, b) : a \in RawDates, b \in RawDates }
    /\ args \in CliArgs
    /\ pc = "cli"
    /\ listing = NoListing
    /\ listed = <<>>
    /\ filtered = <<>>
    /\ meetings = <<>>
    /\ idx = 0
    /\ scraped = <<>>
    /\ downloads = <<>>
    /\ session = "none"
    /\ aborted = FALSE

\* Direct-fetch runs over one or two meetings whose files pages have
\* records of the same name, of names that differ in punctuation only, and
\* of the same name in the two sections.
RF_other == Dict(PyInt("78"), PyInt("3"), PyStr("Staff Report"), Absent, TRUE)

A_again == [A_ok EXCEPT !.el = El_anc(RF_other), !.items = <<Item("PDF", El_own(RF_other))>>]

SavePages ==
    { PlainPage,
      FilesPage(<<P_ok>>, <<A_header, A_ok, A_again>>, IframeAbsent, NoAnchors),
      FilesPage(<<P_ok>>, <<[A_ok EXCEPT !.name = "Agenda: Packet #1 (Final)"],
                            [A_again EXCEPT !.name = "Agenda Packet 1 Final"]>>,
                IframeAbsent, NoAnchors),
      FilesPage(<<P_ok>>, <<[A_ok EXCEPT !.name = "Agenda Packet"]>>,
                IframeAbsent, NoAnchors),
      FilesPage(<<[P_ok EXCEPT !.items = <<I_pdf, I_plain>>, !.closeRaises = TRUE]>>,
                <<A_noTrigger>>, IframeAbsent, NoAnchors) }

MaxSaved == 2

SaveSites ==
    { Site(FALSE, q) :
        q \in SeqsUpTo({ Li(D_iso13, p) : p \in SavePages }, MaxSaved) \ {<<>>} }

SaveArgs ==
    { Args(b, FALSE, TRUE, FALSE, NoCount, NoDate, NoDate) : b \in Backends }

SaveInit == site \in SaveSites /\ args \in SaveArgs /\ RunStart

RunIdle ==
    /\ site = Site(FALSE, <<>>)
    /\ args = Args("playwright", TRUE, FALSE, FALSE, NoCount, NoDate, NoDate)
    /\ argv = NoArgv
    /\ pc = "idle"
    /\ listing = NoListing
    /\ listed = <<>>
    /\ filtered = <<>>
    /\ meetings = <<>>
    /\ idx = 0
    /\ scraped = <<>>
    /\ downloads = <<>>
    /\ session = "none"
    /\ aborted = FALSE

\*-- Walker ----------------------------------------------------------------
\*-- Specifications --------------------------------------------------------
InitUrl == UrlInit /\ DateIdle /\ WalkIdle /\ RunIdle /\ NameIdle /\ InspIdle

NextUrl == BuildDownloadUrl /\ UNCHANGED <<dateVars, walkVars, runVars, nameVars, inspVars>>

SpecUrl == InitUrl /\ [][NextUrl]_vars

InitDate == DateInit /\ UrlIdle /\ WalkIdle /\ RunIdle /\ NameIdle /\ InspIdle

NextDate == ExtractMeetingDate /\ UNCHANGED <<urlVars, walkVars, runVars, nameVars, inspVars>>

SpecDate == InitDate /\ [][NextDate]_vars

InitWalk == WalkInit /\ UrlIdle /\ DateIdle /\ RunIdle /\ NameIdle /\ InspIdle

NextWalk ==
    \/ OpenFilesPage /\ UNCHANGED <<urlVars, dateVars, runVars, nameVars, inspVars>>
    \/ WalkPrimary /\ UNCHANGED <<urlVars, dateVars, runVars, nameVars, inspVars>>
    \/ WalkAttachments /\ UNCHANGED <<urlVars, dateVars, runVars, nameVars, inspVars>>

SpecWalk == InitWalk /\ [][NextWalk]_vars

InitList == ListInit /\ UrlIdle /\ DateIdle /\ WalkIdle /\ NameIdle /\ InspIdle

NextList ==
    \/ ListMeetings /\ UNCHANGED <<urlVars, dateVars, walkVars, nameVars, inspVars>>
    \/ FilterByDate /\ UNCHANGED <<urlVars, dateVars, walkVars, nameVars, inspVars>>

SpecList == InitList /\ [][NextList]_vars

InitCli == CliInit /\ UrlIdle /\ DateIdle /\ WalkIdle /\ NameIdle /\ InspIdle

NextCli ==
    \/ ParseArgs /\ UNCHANGED <<urlVars, dateVars, walkVars, nameVars, inspVars>>
    \/ ListMeetings /\ UNCHANGED <<urlVars, dateVars, walkVars, nameVars, inspVars>>
    \/ FilterByDate /\ UNCHANGED <<urlVars, dateVars, walkVars, nameVars, inspVars>>
    \/ LimitMeetings /\ UNCHANGED <<urlVars, dateVars, walkVars, nameVars, inspVars>>
    \/ OpenSession /\ UNCHANGED <<urlVars, dateVars, walkVars, nameVars, inspVars>>
    \/ ScrapeFiles /\ UNCHANGED <<urlVars, dateVars, walkVars, nameVars, inspVars>>
    \/ CloseSession /\ UNCHANGED <<urlVars, dateVars, walkVars, nameVars, inspVars>>

SpecCli == InitCli /\ [][NextCli]_vars

InitName == NameInit /\ UrlIdle /\ DateIdle /\ WalkIdle /\ RunIdle /\ InspIdle

NextName == SaveAs /\ UNCHANGED <<urlVars, dateVars, walkVars, runVars, inspVars>>

SpecName == InitName /\ [][NextName]_vars

InitInsp == InspInit /\ UrlIdle /\ DateIdle /\ WalkIdle /\ RunIdle /\ NameIdle

NextInsp == InspectButton /\ UNCHANGED <<urlVars, dateVars, walkVars, runVars, nameVars>>

SpecInsp == InitInsp /\ [][NextInsp]_vars

Init == RunInit /\ UrlIdle /\ DateIdle /\ WalkIdle /\ NameIdle /\ InspIdle

Next ==
    \/ ListMeetings /\ UNCHANGED <<urlVars, dateVars, walkVars, nameVars, inspVars>>
    \/ FilterByDate /\ UNCHANGED <<urlVars, dateVars, walkVars, nameVars, inspVars>>
    \/ LimitMeetings /\ UNCHANGED <<urlVars, dateVars, walkVars, nameVars, inspVars>>
    \/ OpenSession /\ UNCHANGED <<urlVars, dateVars, walkVars, nameVars, inspVars>>
    \/ ScrapeFiles /\ UNCHANGED <<urlVars, dateVars, walkVars, nameVars, inspVars>>
    \/ DownloadFiles /\ UNCHANGED <<urlVars, dateVars, walkVars, nameVars, inspVars>>
    \/ CloseSession /\ UNCHANGED <<urlVars, dateVars, walkVars, nameVars, inspVars>>

Spec == Init /\ [][Next]_vars

InitSave == SaveInit /\ UrlIdle /\ DateIdle /\ WalkIdle /\ NameIdle /\ InspIdle

SpecSave == InitSave /\ [][Next]_vars

(***************************************************************************)
(* Claims about the URL Builder (checked under SpecUrl).                   *)
(***************************************************************************)
\* The reference has a stream_url: a non-empty string under the key.
HasStreamUrl(rf) == rf.isdict /\ rf.streamUrl.ty = "str" /\ rf.streamUrl.v # ""

\* The reference has no file_id: no reference, or the key missing or null.
HasNoFileId(rf) == ~rf.isdict \/ rf.fileId.ty \in {"absent", "none"}

\* The reference has a file_id: a non-empty string or a non-zero number.
HasFileId(rf) ==
    /\ rf.isdict
    /\ \/ rf.fileId.ty = "str" /\ rf.fileId.v # ""
       \/ rf.fileId.ty = "int" /\ rf.fileId.v # "0"

\* C2 (as claimed): whenever the reference has a stream_url the builder
\* returns it verbatim, whatever the other fields of the reference are.
C2_StreamUrlAlwaysVerbatim ==
    (ub_pc = "done" /\ HasStreamUrl(ub_in.rf)) => ub_out = ub_in.rf.streamUrl

\* C2 (amended): whenever the reference has a file_id and a stream_url the
\* builder returns the stream_url verbatim, for every combination of
\* is_attachment and is_plain_text.
C2_StreamUrlVerbatimWithFileId ==
    (ub_pc = "done" /\ HasFileId(ub_in.rf) /\ HasStreamUrl(ub_in.rf))
        => ub_out = ub_in.rf.streamUrl

C2_Witness ==
    /\ ub_pc = "done"
    /\ HasFileId(ub_in.rf) /\ HasStreamUrl(ub_in.rf)
    /\ ub_in.is_attachment /\ ub_in.plain_text
    /\ ub_in.rf.fileType = PyInt("1")
    /\ ub_out = PyStr("https://blob.example/a.pdf?sig=1")

\* C3: a reference without a file_id (or no reference at all) gives no-value,
\* whatever its stream_url, its file type and the two flags are.
C3_NoFileIdNoValue ==
    (ub_pc = "done" /\ HasNoFileId(ub_in.rf)) => ub_out = PyNone

C3_Witness ==
    /\ ub_pc = "done"
    /\ ub_in.rf.isdict /\ ub_in.rf.fileId = Absent
    /\ HasStreamUrl(ub_in.rf)
    /\ ub_in.rf.fileType = PyInt("3")
    /\ ub_in.is_attachment
    /\ ub_out = PyNone

\* C4: with a file_id and no stream_url the result is the attachment shape
\* when is_attachment (whatever is_plain_text is), and otherwise the stream
\* shape with plainText=true iff is_plain_text, else plainText=false.
C4_ConstructedShapes ==
    (ub_pc = "done" /\ HasFileId(ub_in.rf) /\ ~HasStreamUrl(ub_in.rf)) =>
        LET id == ub_in.rf.fileId.v
            base == "https://firestoneco.api.civicclerk.com/v1/"
        IN  ub_out =
              IF ub_in.is_attachment
              THEN PyStr(base \o "Meetings/GetAttachmentFile(fileId=" \o id \o ")")
              ELSE IF ub_in.plain_text
              THEN PyStr(base \o "Meetings/GetMeetingFileStream(fileId=" \o id
                              \o ",plainText=true)")
              ELSE PyStr(base \o "Meetings/GetMeetingFileStream(fileId=" \o id
                              \o ",plainText=false)")

C4_Witness ==
    /\ ub_pc = "done"
    /\ ub_in.rf.isdict /\ ub_in.rf.fileId = PyStr("123")
    /\ ~HasStreamUrl(ub_in.rf)
    /\ ~ub_in.is_attachment /\ ub_in.plain_text
    /\ ub_out = PyStr("https://firestoneco.api.civicclerk.com/v1/Meetings/GetMeetingFileStream(fileId=123,plainText=true)")

(***************************************************************************)
(* Claims about the Date Extractor (checked under SpecDate).               *)
(* The date each fixture holds is written down here by hand, as a test     *)
(* would state its expectation; NoDate when it holds no valid date.        *)
(***************************************************************************)
IsoHeld(dd) ==
    CASE dd = Iso(2025, 8, 13, 18, 0, 0, ZoneZ)           -> Date(2025, 8, 13)
      [] dd = Iso(2025, 8, 13, 23, 30, 0, ZoneOffset(-7)) -> Date(2025, 8, 13)
      [] dd = Iso(2024, 2, 29, 0, 0, 0, NoZone)           -> Date(2024, 2, 29)
      [] OTHER                                            -> NoDate

AriaHeld(t) ==
    CASE t = Text(<<W_on, W_Wednesday, W_Aug, Num(14, 2), Num(2025, 4),
                    Num(6, 1), W_PM>>)                    -> Date(2025, 8, 14)
      [] t = Text(<<W_Wednesday, W_SEPTEMBER, Num(1, 1),
                    Num(20255, 5)>>)                      -> Date(2025, 9, 1)
      [] OTHER                                            -> NoDate

H2Held(t) ==
    CASE t = Text(<<W_Aug, Num(15, 2), Num(2025, 4)>>)    -> Date(2025, 8, 15)
      [] OTHER                                            -> NoDate

\* What each source holds for the extractor; an unreadable label holds nothing.
Held1(e) == IsoHeld(e.data_date)
Held2(e) == IF e.aria_raises THEN NoDate ELSE AriaHeld(e.aria_label)
Held3(e) == H2Held(e.h2)

HoldersCount(e) ==
    Cardinality({ k \in 1..3 : <<Held1(e), Held2(e), Held3(e)>>[k] # NoDate })

\* The date of the first source, in the order 1, 2, 3, that holds a valid one.
FirstHeld(e) ==
    IF Held1(e) # NoDate THEN Held1(e)
    ELSE IF Held2(e) # NoDate THEN Held2(e)
    ELSE Held3(e)

\* C5: when several sources hold a parseable date (the fixtures' dates all
\* differ) the result is that of source 1, else source 2, else source 3; and
\* a valid ISO-8601 timestamp gives exactly its calendar date, whatever its
\* time and zone are.
C5_PriorityOfSources ==
    de_pc = "done" =>
        /\ HoldersCount(de_entry) >= 2 => de_out.date = FirstHeld(de_entry)
        /\ Held1(de_entry) # NoDate =>
              de_out.date = Date(de_entry.data_date.y, de_entry.data_date.m,
                                 de_entry.data_date.d)

C5_Witness ==
    /\ de_pc = "done"
    /\ de_entry.data_date = Iso(2025, 8, 13, 23, 30, 0, ZoneOffset(-7))
    /\ Held2(de_entry) = Date(2025, 8, 14)
    /\ Held3(de_entry) = Date(2025, 8, 15)
    /\ de_out.date = Date(2025, 8, 13)

\* Source 1 fails to parse, sources 2 and 3 disagree: source 2 wins.
C5_WitnessSecond ==
    /\ de_pc = "done"
    /\ de_entry.data_date = GarbageAttr
    /\ Held2(de_entry) = Date(2025, 9, 1)
    /\ Held3(de_entry) = Date(2025, 8, 15)
    /\ de_out.date = Date(2025, 9, 1)

\* C6 (as claimed): the extractor never raises, and whenever the label can be
\* read the result is the date of the first source in the order 1, 2, 3 that
\* yields a valid date: no-value only when none of the three does.  A source
\* that is present but yields no date never hides a later one.
C6_FailedSourceNeverHidesLater ==
    (de_pc = "done" /\ ~de_entry.aria_raises) =>
        /\ ~de_out.raised
        /\ de_out.date = FirstHeld(de_entry)

(***************************************************************************)
(* Claims about the File Page Walker (SpecWalk).                           *)
(***************************************************************************)
\* The stepwise walk and the function agree on what is returned.
WalkIsFunction ==
    wk_pc = "returned" =>
        wk_files = scrape_meeting_files(wk_backend, wk_page).files

WalkedFiles == { wk_files[k] : k \in DOMAIN wk_files }

\* C1: every record the walker has appended, in either section, by either
\* backend, with or without a trigger and through whatever fallback, has a
\* download_url that is a string and not the empty one: a URL or "N/A".
C1_DownloadUrlNeverEmpty ==
    \A r \in WalkedFiles : r.download_url.ty = "str" /\ r.download_url.v # ""

\* a walk that returned a trigger-less entry, a menu item that neither the
\* builder nor a fallback gave a URL, and a menu item whose URL was built
C1_Witness ==
    /\ wk_pc = "returned"
    /\ \E r \in WalkedFiles : r.origin.item = 0 /\ r.download_url = PyStr("N/A")
    /\ \E r \in WalkedFiles : r.origin.item > 0 /\ r.download_url = PyStr("N/A")
    /\ \E r \in WalkedFiles : r.download_url = PyStr(StreamUrl(PyInt("42"), FALSE))

\* a menu item whose URL is the href found by the anchor scan
WalkedAnchorUrl ==
    /\ wk_pc = "returned"
    /\ \E r \in WalkedFiles :
          r.origin.item > 0 /\ r.download_url = PyStr("https://example.org/download/7")

(***************************************************************************)
(* Claims about the listing and the date filter (SpecList).                *)
(***************************************************************************)
\* days since a fixed origin, up to a constant: order of calendar dates
DayNumber(d) == d.y * 372 + d.m * 31 + d.d

InRange(m, start_date, end_date) ==
    /\ m.date # NoDate
    /\ start_date # NoDate => DayNumber(start_date) <= DayNumber(m.date)
    /\ end_date # NoDate => DayNumber(m.date) <= DayNumber(end_date)

KeptByRange(ms, start_date, end_date) ==
    IF start_date = NoDate /\ end_date = NoDate THEN ms
    ELSE SelectSeq(ms, LAMBDA m : InRange(m, start_date, end_date))

Readable(li) == li.hasAnchor /\ li.href # "" /\ ~li.raises

\* C7: when the index loads, every readable list entry is listed, those without any date source
\* with date = none; the filter called with a bound returns exactly the
\* listed meetings that have a date within the inclusive range, in their
\* order; called without bound it returns the list unchanged.
C7_DatelessListedAndFilteredOut ==
    pc # "start" =>
        /\ (~site.fails /\ listing.fault = "none") =>
              \A i \in DOMAIN site.entries :
                  Readable(site.entries[i]) =>
                      \E k \in DOMAIN listed :
                          /\ listed[k].event_id = i
                          /\ site.entries[i].dates = D_none => listed[k].date = NoDate
        /\ filter_meetings_by_date_range(listed, args.start_date, args.end_date)
               = KeptByRange(listed, args.start_date, args.end_date)
        /\ filter_meetings_by_date_range(listed, NoDate, NoDate) = listed
        /\ pc = "filtered" => filtered = KeptByRange(listed, args.start_date, args.end_date)

\* three meetings listed, one of them dateless, one on the start date itself;
\* the filter with both bounds kept some and dropped some
C7_Witness ==
    /\ pc = "filtered"
    /\ args.start_date # NoDate /\ args.end_date # NoDate
    /\ Len(listed) = 3
    /\ \E k \in DOMAIN listed : listed[k].date = NoDate
    /\ \E k \in DOMAIN listed : listed[k].date = args.start_date
    /\ Len(filtered) \in {1, 2}

(***************************************************************************)
(* Claims about the run (Spec).                                            *)
(***************************************************************************)
Min(a, b) == IF a <= b THEN a ELSE b

EventIds(ms) == [k \in DOMAIN ms |-> ms[k].event_id]

\* the limit step has run
Limited ==
    \/ pc \in {"limited", "loop", "download", "closing"}
    \/ pc = "done" /\ (args.meetings_only \/ session = "closed")

\* C8: once the limit was applied, the meetings of the run are the last
\* min(N, k) of the k filtered meetings, in order, when N > 0, and all k of
\* them when N is absent or <= 0; with files, the meetings scraped so far are
\* the first of exactly this list, in order.
C8_LimitAfterFilter ==
    Limited =>
        /\ IF args.max_meetings.given /\ args.max_meetings.n > 0
           THEN /\ Len(meetings) = Min(args.max_meetings.n, Len(filtered))
                /\ \A j \in DOMAIN meetings :
                      meetings[j].event_id
                          = filtered[Len(filtered) - Len(meetings) + j].event_id
           ELSE EventIds(meetings) = EventIds(filtered)
        /\ Len(scraped) <= Len(meetings)
        /\ scraped = SubSeq(EventIds(meetings), 1, Len(scraped))

\* a finished run with files: three listed, the date filter kept two, N = 1
\* kept the last of them, and that one was scraped
C8_Witness ==
    /\ pc = "done" /\ ~args.meetings_only /\ session = "closed"
    /\ args.max_meetings = Count(1)
    /\ Len(listed) = 3 /\ Len(filtered) = 2 /\ Len(meetings) = 1
    /\ scraped = <<filtered[2].event_id>>

\* a finished meetings-only run with N = 2 of three filtered
LimitedMeetingsOnly ==
    /\ pc = "done" /\ args.meetings_only
    /\ args.max_meetings = Count(2)
    /\ Len(filtered) = 3 /\ Len(meetings) = 2

ScrapeRaisesFor(event_id) == site.entries[event_id].page.gotoRaises

\* C9: in a finished run, a meeting whose scrape_meeting_files raised
\* has files = [], no download was attempted for it, and every meeting after
\* it in the batch was scraped.
C9_ScrapeFailureIsolated ==
    (pc = "done" /\ session = "closed") =>
        \A i \in DOMAIN meetings :
            (i <= Len(scraped) /\ ScrapeRaisesFor(meetings[i].event_id)) =>
                /\ meetings[i].hasFiles /\ meetings[i].files = <<>>
                /\ \A k \in DOMAIN downloads : downloads[k].event_id # meetings[i].event_id
                /\ \A j \in DOMAIN meetings : j > i => j <= Len(scraped)

\* what does hold: the meeting right after the failed one is scraped, and
\* the failed one has files = [] and no download
ScrapeFailureHandled ==
    (pc = "done" /\ session = "closed") =>
        \A i \in DOMAIN meetings :
            (i <= Len(scraped) /\ ScrapeRaisesFor(meetings[i].event_id)) =>
                /\ meetings[i].hasFiles /\ meetings[i].files = <<>>
                /\ \A k \in DOMAIN downloads : downloads[k].event_id # meetings[i].event_id
                /\ i < Len(meetings) => i + 1 <= Len(scraped)

\* C10: whatever fails in the download phase of one meeting, the run goes
\* on: when it has finished, every meeting of the batch was scraped.
C10_DownloadFailureNeverStopsBatch ==
    (pc = "done" /\ session = "closed" /\ args.download_files) =>
        Len(scraped) = Len(meetings)

\* without a failure in a download phase the whole batch is scraped
NoAbortWholeBatch ==
    (pc = "done" /\ session = "closed" /\ ~aborted) => Len(scraped) = Len(meetings)

\* the run returned a list to main (the function did not raise)
ReturnedWithFiles == pc = "done" /\ ~args.meetings_only

\* C11: whenever scrape_meetings_with_files returns a non-empty list, every
\* meeting of that list carries a files field holding a list.
C11_EveryReturnedMeetingHasFiles ==
    (ReturnedWithFiles /\ meetings # <<>>) =>
        \A i \in DOMAIN meetings : meetings[i].hasFiles

\* what does hold: every meeting the loop reached carries files, and when
\* no download phase failed that is every meeting of the list
FilesOnEveryMeetingReached ==
    (ReturnedWithFiles /\ meetings # <<>>) =>
        /\ \A i \in DOMAIN meetings : meetings[i].hasFiles <=> i <= Len(scraped)
        /\ ~aborted => \A i \in DOMAIN meetings : meetings[i].hasFiles

\* A session that is not left behind: nothing was launched, every close call
\* was made, the close call itself was made and failed, or (Playwright) the
\* block `with sync_playwright()` was left, which stops what it started.
TornDown == {"none", "closed", "quitFailed", "stopped"}

ListingEnded == pc \notin {"idle", "cli", "start"}
FilesPhaseEnded == pc \in {"done", "raised"}

\* C12: once the listing phase has ended (returned or raised) its browser
\* session is not left open, and once the run has ended the session of the
\* files phase is not left open, whatever failed: the launch, a setup call,
\* the navigation to the index, or a close call.
C12_EverySessionClosed ==
    /\ ListingEnded => listing.session \in TornDown
    /\ FilesPhaseEnded => session \in TornDown

\* what does hold: the Playwright backend leaves no session behind, and no
\* backend does once the try of the phase was entered
SessionsClosedAfterSetup ==
    /\ (ListingEnded /\ args.backend = "playwright") => listing.session \in TornDown
    /\ (FilesPhaseEnded /\ args.backend = "playwright") => session \in TornDown
    /\ (ListingEnded /\ listing.fault \in {"none", "close"})
           => listing.session \in {"closed", "quitFailed", "stopped"}
    /\ (FilesPhaseEnded /\ Len(scraped) > 0) => session \in {"closed", "quitFailed", "stopped"}

\* the index could not be loaded (navigation) or parsed (the list never
\* renders), and nothing else failed
IndexFailed ==
    /\ ListingEnded
    /\ \/ listing.fault = "goto"
       \/ listing.fault = "none" /\ site.fails

\* C13: when the index cannot be loaded or parsed, scrape_meetings does not
\* raise and gives the empty list; with files the run returns the empty list
\* and the session of the files phase is never opened; meetings-only, main
\* returns.
C13_ListingFailureNeverPropagates ==
    IndexFailed =>
        /\ ~listing.raised
        /\ listed = <<>>
        /\ ~args.meetings_only => (pc = "done" /\ meetings = <<>> /\ session = "none")
        /\ args.meetings_only => pc # "raised"

\* what does hold: with files the failure ends in the empty list with no
\* second session, in both backends; the Playwright backend never raises;
\* and a failed wait inside the try is caught by both
ListingFailureCaught ==
    IndexFailed =>
        /\ listed = <<>>
        /\ ~args.meetings_only => (pc = "done" /\ meetings = <<>> /\ session = "none")
        /\ (args.backend = "playwright" \/ listing.fault = "none")
               => (~listing.raised /\ pc # "raised")

Fetches == { a \in DOMAIN downloads : downloads[a].via = "fetch" }

\* the record of the run an attempt was made for
RecordOf(d) ==
    LET i == CHOOSE i \in DOMAIN meetings : meetings[i].event_id = d.event_id
    IN  meetings[i].files[d.k]

\* C14: in direct-fetch mode every call of download_file is for a record of
\* the run whose download_url is a URL (never "N/A", empty or missing), and
\* no record is fetched twice in a run, whether its first fetch failed or not.
C14_NoFetchWithoutUrlAndAtMostOnce ==
    /\ \A a \in Fetches :
          /\ downloads[a].url = RecordOf(downloads[a]).download_url
          /\ downloads[a].url.ty = "str"
          /\ downloads[a].url.v \notin {"", "N/A"}
    /\ \A a, b \in Fetches :
          (downloads[a].event_id = downloads[b].event_id
               /\ downloads[a].k = downloads[b].k) => a = b

\* a finished direct-fetch run over two meetings in which a record with
\* "N/A" was skipped, one fetch failed and a later one succeeded
C14_Witness ==
    /\ pc = "done" /\ args.download_files /\ ~args.use_click_download
    /\ Len(scraped) = 2 /\ ~aborted
    /\ \E i \in DOMAIN meetings : \E k \in DOMAIN meetings[i].files :
          /\ meetings[i].files[k].download_url = PyStr("N/A")
          /\ \A a \in Fetches : ~(downloads[a].event_id = meetings[i].event_id
                                    /\ downloads[a].k = k)
    /\ \E a, b \in Fetches : a < b /\ ~downloads[a].ok /\ downloads[b].ok

Usable(f) == Truthy(f.download_url) /\ f.download_url # PyStr("N/A")

FetchedRecord(event_id, k) ==
    \E a \in Fetches : downloads[a].event_id = event_id /\ downloads[a].k = k

\* every record of meetings[j] that has a URL was fetched
AllFetched(j) ==
    /\ j <= Len(scraped)
    /\ \A k \in DOMAIN meetings[j].files :
          Usable(meetings[j].files[k]) => FetchedRecord(meetings[j].event_id, k)

FailedFetchAt(i, k) ==
    \E a \in Fetches :
        /\ downloads[a].event_id = meetings[i].event_id
        /\ downloads[a].k = k
        /\ ~downloads[a].ok

DirectRunReturned ==
    pc = "done" /\ args.download_files /\ ~args.use_click_download

\* C15: in a finished direct-fetch run, after a fetch that failed (which
\* download_file reports as False) every later record of the same meeting
\* that has a URL was fetched as well, and so was every record with a URL of
\* every later meeting.
C15_FetchFailureNeverStopsBatch ==
    DirectRunReturned =>
        \A i \in DOMAIN meetings : \A k \in DOMAIN meetings[i].files :
            FailedFetchAt(i, k) =>
                /\ \A k2 \in DOMAIN meetings[i].files :
                      (k2 > k /\ Usable(meetings[i].files[k2]))
                          => FetchedRecord(meetings[i].event_id, k2)
                /\ \A j \in DOMAIN meetings : j > i => AllFetched(j)

\* what does hold: the failed fetch itself stops nothing; the batch is cut
\* short only when something in a download phase raised
FetchFailureHandled ==
    (DirectRunReturned /\ ~aborted) =>
        \A i \in DOMAIN meetings : \A k \in DOMAIN meetings[i].files :
            FailedFetchAt(i, k) =>
                /\ \A k2 \in DOMAIN meetings[i].files :
                      (k2 > k /\ Usable(meetings[i].files[k2]))
                          => FetchedRecord(meetings[i].event_id, k2)
                /\ \A j \in DOMAIN meetings : j > i => AllFetched(j)

\* a failed fetch followed by fetches of the same and of a later meeting
FetchFailedAndRunWentOn ==
    /\ DirectRunReturned /\ ~aborted /\ Len(scraped) = 2
    /\ \E a, b, c \in Fetches :
          /\ a < b /\ b < c /\ ~downloads[a].ok
          /\ downloads[b].event_id = downloads[a].event_id
          /\ downloads[c].event_id # downloads[a].event_id

(***************************************************************************)
(* Claims about the command line (SpecCli).  Which of the texts are valid  *)
(* YYYY-MM-DD dates is written down here by hand.                          *)
(***************************************************************************)
ValidTexts ==
    { Ymd(2025, 4, 8, 13, FALSE), Ymd(2025, 4, 8, 14, FALSE), Ymd(2025, 4, 8, 15, FALSE) }

\* the option was passed and its text is not a valid date
InvalidText(t) == t.given /\ t \notin ValidTexts

StartAfterEnd ==
    /\ argv.start \in ValidTexts /\ argv.end \in ValidTexts
    /\ argv.start.d > argv.end.d

\* main returned from the date checks: no scraper was created, nothing ran
EndedAtDiagnostic ==
    /\ pc = "done"
    /\ listing = NoListing /\ listed = <<>> /\ scraped = <<>> /\ session = "none"

\* C16: when the text of --start or --end is not a valid YYYY-MM-DD date, or
\* start is after end, main returns from the date checks without creating a
\* scraper; equal start and end are accepted and the run goes on with them;
\* and a pipeline that yields zero meetings never makes main raise.
C16_InvalidDatesEndBeforeAnyScrape ==
    pc # "cli" =>
        /\ (InvalidText(argv.start) \/ InvalidText(argv.end) \/ StartAfterEnd)
               => EndedAtDiagnostic
        /\ (argv.start \in ValidTexts /\ argv.end = argv.start)
               => (~EndedAtDiagnostic /\ args.start_date = args.end_date
                       /\ args.start_date = Date(argv.start.y, argv.start.m, argv.start.d))
        /\ (ListingEnded /\ listing.fault = "none" /\ meetings = <<>>) => pc # "raised"

\* what does hold: the same for every text that is not empty
NonEmptyInvalidDatesEnd ==
    pc # "cli" =>
        /\ (\/ InvalidText(argv.start) /\ argv.start # EmptyText
            \/ InvalidText(argv.end) /\ argv.end # EmptyText
            \/ StartAfterEnd) => EndedAtDiagnostic
        /\ (argv.start \in ValidTexts /\ argv.end = argv.start)
               => (~EndedAtDiagnostic /\ args.start_date = args.end_date)
        /\ (ListingEnded /\ listing.fault = "none" /\ meetings = <<>>) => pc # "raised"

\* a day that does not exist was refused; equal dates were accepted and the
\* filter left no meeting
RefusedBadDay ==
    /\ argv.start = Ymd(2025, 4, 2, 30, FALSE) /\ argv.end = NotGiven
    /\ EndedAtDiagnostic

AcceptedEqualDates ==
    /\ argv.start = Ymd(2025, 4, 8, 15, FALSE) /\ argv.end = argv.start
    /\ pc = "done" /\ listed # <<>> /\ meetings = <<>>

(***************************************************************************)
(* Claims about the sections of the files page (SpecWalk).                 *)
(***************************************************************************)
\* Processing the entry raises out of the handling of its trigger: the
\* element handle cannot be taken (Playwright), the reference found under
\* the props is null, the click fails, or the menu never shows.
PrimaryEntryRaises(backend, e) ==
    /\ e.hasName /\ e.trigger = "files"
    /\ \/ backend = "playwright" /\ e.handleRaises
       \/ NullReferenceRaises(inspect_button_handlers(e.el))
       \/ e.clickRaises
       \/ ~e.menuAppears

AttachmentEntryRaises(backend, e) ==
    /\ ~IsSectionHeader(e) /\ e.hasName
    /\ e.trigger \in {"reportFiles", "attachmentFiles"}
    /\ \/ backend = "playwright" /\ e.handleRaises
       \/ e.clickRaises
       \/ ~e.menuAppears

\* the page without the entries whose processing raises
WithoutFaulty(backend, page) ==
    [page EXCEPT
        !.primary = SelectSeq(page.primary, LAMBDA e : ~PrimaryEntryRaises(backend, e)),
        !.attachments = SelectSeq(page.attachments,
                                  LAMBDA e : ~AttachmentEntryRaises(backend, e))]

\* the records without the position they came from
Unplaced(files) == [k \in DOMAIN files |-> [files[k] EXCEPT !.origin = Origin("", 0, 0)]]

FromEntry(sec, i) ==
    { k \in DOMAIN wk_files : wk_files[k].origin.sec = sec /\ wk_files[k].origin.entry = i }

\* C17: the walk returns (entry faults never propagate); an entry whose
\* processing raised has no record in the result; and the result is exactly
\* what the page without those entries gives, so that a fault in the second
\* of three files leaves the records of the first and the third.
C17_FaultyEntryContributesNothing ==
    /\ (wk_pc \in {"primary", "attachments", "returned"})
           => ~scrape_meeting_files(wk_backend, wk_page).raised
    /\ wk_pc = "returned" =>
          /\ \A i \in DOMAIN wk_page.primary :
                PrimaryEntryRaises(wk_backend, wk_page.primary[i])
                    => FromEntry("files", i) = {}
          /\ \A i \in DOMAIN wk_page.attachments :
                AttachmentEntryRaises(wk_backend, wk_page.attachments[i])
                    => FromEntry("attachments", i) = {}
          /\ Unplaced(wk_files)
                = Unplaced(scrape_meeting_files(wk_backend,
                                                WithoutFaulty(wk_backend, wk_page)).files)

\* what does hold: the same for the Playwright backend, and in the Selenium
\* backend for the attachments section
FaultyEntrySkipped ==
    /\ (wk_pc \in {"primary", "attachments", "returned"})
           => ~scrape_meeting_files(wk_backend, wk_page).raised
    /\ wk_pc = "returned" =>
          /\ \A i \in DOMAIN wk_page.attachments :
                AttachmentEntryRaises(wk_backend, wk_page.attachments[i])
                    => FromEntry("attachments", i) = {}
          /\ wk_backend = "playwright" =>
                /\ \A i \in DOMAIN wk_page.primary :
                      PrimaryEntryRaises(wk_backend, wk_page.primary[i])
                          => FromEntry("files", i) = {}
                /\ Unplaced(wk_files)
                      = Unplaced(scrape_meeting_files(wk_backend,
                                     WithoutFaulty(wk_backend, wk_page)).files)

\* Playwright, three primary files, the click on the second fails: the
\* records of the first and the third
SecondOfThreeSkipped ==
    /\ wk_pc = "returned" /\ wk_backend = "playwright"
    /\ Len(wk_page.primary) = 3 /\ wk_page.primary[2].clickRaises
    /\ wk_page.attachments = <<>>
    /\ Len(wk_files) = 2
    /\ wk_files[1].origin.entry = 1 /\ wk_files[2].origin.entry = 3

\* the menu items of an entry that can be read: label and download element
\* are there (and, Playwright, the element handle can be taken)
ReadableItems(backend, e) ==
    { j \in DOMAIN e.items : ~ItemUnreadable(backend, e.items[j]) }

\* the menu items the records of entry i came from, in the order of the result
ItemsRecorded(sec, i) ==
    LET recs == SelectSeq(wk_files,
                          LAMBDA r : r.origin.sec = sec /\ r.origin.entry = i)
    IN  [k \in DOMAIN recs |-> recs[k].origin.item]

\* the members of a set of numbers in rising order
RECURSIVE Rising(_)
Rising(S) ==
    IF S = {} THEN <<>>
    ELSE LET m == CHOOSE x \in S : \A y \in S : x <= y
         IN  <<m>> \o Rising(S \ {m})

\* both lists were found and the menu of the entry was opened
MenuOpened(backend, e, triggers) ==
    /\ wk_page.filesFound /\ wk_page.attachmentsFound
    /\ ~IsSectionHeader(e) /\ e.hasName /\ e.trigger \in triggers
    /\ ~(backend = "playwright" /\ e.handleRaises)
    /\ ~e.clickRaises /\ e.menuAppears

\* C18: in the attachments section every readable menu item of an opened
\* menu has its own record, in menu order, while a primary entry whose menu
\* opened on a readable first item has one record; and the page with one
\* primary file (one menu item, file id 42, type 1) and one attachment (two
\* menu items, PDF and Plain Text, file id 77) gives one primary record with
\* the stream shape and two attachment records with the attachment shape.
C18_EveryAttachmentMenuItemRecorded ==
    wk_pc = "returned" =>
        /\ \A i \in DOMAIN wk_page.attachments :
              MenuOpened(wk_backend, wk_page.attachments[i],
                         {"reportFiles", "attachmentFiles"})
                  => ItemsRecorded("attachments", i)
                         = Rising(ReadableItems(wk_backend, wk_page.attachments[i]))
        /\ \A i \in DOMAIN wk_page.primary :
              (/\ MenuOpened(wk_backend, wk_page.primary[i], {"files"})
               /\ ~NullReferenceRaises(inspect_button_handlers(wk_page.primary[i].el))
               /\ 1 \in ReadableItems(wk_backend, wk_page.primary[i]))
                  => ItemsRecorded("files", i) = <<1>>
        /\ (wk_page.primary = <<P_ok>> /\ wk_page.attachments = <<A_ok>>) =>
              /\ Len(wk_files) = 3
              /\ wk_files[1].download_url = PyStr(StreamUrl(PyInt("42"), FALSE))
              /\ wk_files[2].download_url = PyStr(AttachmentUrl(PyInt("77")))
              /\ wk_files[3].download_url = PyStr(AttachmentUrl(PyInt("77")))
              /\ wk_files[2].type = PyStr("PDF") /\ wk_files[3].type = PyStr("Plain Text")

\* the builder gives a URL for the item (its own reference or the trigger's)
ItemHasUrl(e, it) ==
    Truthy(BuiltUrl(FileData(it, RemoteFileOf(inspect_button_handlers(e.el))),
                    PyInt("3"), PlainTextLabel(it.label)))

\* what does hold: the Playwright backend records every readable item of an
\* attachment menu, the Selenium backend those the builder gives a URL or
\* that have no reference at all; and the fixture page gives 1 + 2 records
AttachmentItemsRecorded ==
    wk_pc = "returned" =>
        /\ \A i \in DOMAIN wk_page.attachments :
              MenuOpened(wk_backend, wk_page.attachments[i],
                         {"reportFiles", "attachmentFiles"})
                  => ItemsRecorded("attachments", i)
                       = Rising({ j \in ReadableItems(wk_backend, wk_page.attachments[i]) :
                                    \/ wk_backend = "playwright"
                                    \/ ItemHasUrl(wk_page.attachments[i],
                                                  wk_page.attachments[i].items[j])
                                    \/ ~TruthyDict(FileData(wk_page.attachments[i].items[j],
                                             RemoteFileOf(inspect_button_handlers(
                                                 wk_page.attachments[i].el)))) })
        /\ (wk_page.primary = <<P_ok>> /\ wk_page.attachments = <<A_ok>>) =>
              /\ Len(wk_files) = 3
              /\ wk_files[1].download_url = PyStr(StreamUrl(PyInt("42"), FALSE))
              /\ wk_files[2].download_url = PyStr(AttachmentUrl(PyInt("77")))
              /\ wk_files[3].download_url = PyStr(AttachmentUrl(PyInt("77")))

\* the fixture page was walked by the Selenium backend
FixturePageWalked ==
    /\ wk_pc = "returned" /\ wk_backend = "selenium"
    /\ wk_page.primary = <<P_ok>> /\ wk_page.attachments = <<A_ok>>
    /\ Len(wk_files) = 3
    /\ wk_files[3].plain_text = PyTrue
    /\ wk_files[3].download_url
          = PyStr("https://firestoneco.api.civicclerk.com/v1/Meetings/GetAttachmentFile(fileId=77)")

\* the Selenium backend left a readable menu item of an attachment without
\* record, where the Playwright backend records it with "N/A"
ReadableItemDropped ==
    /\ wk_pc = "returned" /\ wk_backend = "selenium"
    /\ \E i \in DOMAIN wk_page.attachments :
          /\ MenuOpened(wk_backend, wk_page.attachments[i],
                        {"reportFiles", "attachmentFiles"})
          /\ 1 \in ReadableItems(wk_backend, wk_page.attachments[i])
          /\ ItemsRecorded("attachments", i) = <<2>>
          /\ Len(scrape_meeting_files("playwright", wk_page).files) = Len(wk_files) + 1

\* the header rows before entry i of the attachments list
HeadersBefore(i) == { h \in 1..(i - 1) : wk_page.attachments[h].isHeader }

TextHeadersBefore(i) ==
    { h \in HeadersBefore(i) : wk_page.attachments[h].headerText # "" }

Last(S) == CHOOSE x \in S : \A y \in S : y <= x

\* the text of the nearest header row before entry i, none without one
NearestHeader(i) ==
    IF HeadersBefore(i) = {} \/ wk_page.attachments[Last(HeadersBefore(i))].headerText = ""
    THEN PyNone
    ELSE PyStr(wk_page.attachments[Last(HeadersBefore(i))].headerText)

\* the text of the nearest header row with text before entry i
NearestTextHeader(i) ==
    IF TextHeadersBefore(i) = {} THEN PyNone
    ELSE PyStr(wk_page.attachments[Last(TextHeadersBefore(i))].headerText)

\* C19 (as claimed): every record of the attachments section has as section
\* the text of the nearest header row before its entry (none without one),
\* no record comes from a header row, and primary records have no section.
C19_SectionIsNearestHeader ==
    \A k \in DOMAIN wk_files :
        IF wk_files[k].origin.sec = "attachments"
        THEN /\ ~wk_page.attachments[wk_files[k].origin.entry].isHeader
             /\ wk_files[k].section = NearestHeader(wk_files[k].origin.entry)
        ELSE wk_files[k].section = Absent

\* C19 (amended): every record of the attachments section has as section
\* the text of the nearest header row WITH TEXT before its entry (none
\* without one): a header row whose text is blank changes nothing.  No
\* record comes from a header row, and primary records have no section.
C19_SectionIsNearestTextHeader ==
    \A k \in DOMAIN wk_files :
        IF wk_files[k].origin.sec = "attachments"
        THEN /\ ~wk_page.attachments[wk_files[k].origin.entry].isHeader
             /\ wk_files[k].section = NearestTextHeader(wk_files[k].origin.entry)
        ELSE wk_files[k].section = Absent

\* an attachment before any header, a header, an attachment after it, and
\* a primary record
C19_Witness ==
    /\ wk_pc = "returned"
    /\ Len(wk_page.attachments) = 3 /\ wk_page.attachments[2] = A_header
    /\ \E k \in DOMAIN wk_files :
          wk_files[k].origin = Origin("attachments", 1, 0) /\ wk_files[k].section = PyNone
    /\ \E k \in DOMAIN wk_files :
          wk_files[k].origin = Origin("attachments", 3, 2)
              /\ wk_files[k].section = PyStr("Reports")
    /\ \E k \in DOMAIN wk_files :
          wk_files[k].origin.sec = "files" /\ wk_files[k].section = Absent

\* the second of two headers tags the record
SecondHeaderTags ==
    /\ wk_pc = "returned"
    /\ wk_page.attachments = <<A_header, Header("Consent"), A_ok>>
    /\ \A k \in DOMAIN wk_files :
          wk_files[k].origin.sec = "attachments" => wk_files[k].section = PyStr("Consent")
    /\ Len(wk_files) >= 2

\* C20: every record of the primary section comes from an entry without
\* trigger (item 0) or from the first menu item of its entry: no later menu
\* item is ever turned into a record.
C20_PrimaryOnlyFirstMenuItem ==
    \A k \in DOMAIN wk_files :
        wk_files[k].origin.sec = "files" => wk_files[k].origin.item \in {0, 1}

\* what does hold: when the first item can be read and the click that
\* closes the menu does not fail, the entry's only record is that of item 1
FirstItemOnlyWhenItSucceeds ==
    wk_pc = "returned" =>
        \A i \in DOMAIN wk_page.primary :
            (/\ MenuOpened(wk_backend, wk_page.primary[i], {"files"})
             /\ ~NullReferenceRaises(inspect_button_handlers(wk_page.primary[i].el))
             /\ 1 \in ReadableItems(wk_backend, wk_page.primary[i])
             /\ ~wk_page.primary[i].closeRaises)
                => ItemsRecorded("files", i) = <<1>>

\* the first menu item had no label and the second was recorded instead
SecondItemRecorded ==
    /\ wk_pc = "returned"
    /\ \E i \in DOMAIN wk_page.primary :
          /\ Len(wk_page.primary[i].items) = 2
          /\ ~wk_page.primary[i].items[1].hasLabel
          /\ ItemsRecorded("files", i) = <<2>>

(***************************************************************************)
(* Claims about the fallbacks and the references (SpecWalk).               *)
(***************************************************************************)
\* the records of menu items of the primary section
PrimaryItemRecords ==
    { k \in DOMAIN wk_files : wk_files[k].origin.sec = "files" /\ wk_files[k].origin.item > 0 }

EntryOf(k) == wk_page.primary[wk_files[k].origin.entry]
ItemOf(k)  == EntryOf(k).items[wk_files[k].origin.item]

\* the reference the record was built from: the item's own, else the trigger's
ReferenceOf(k) ==
    FileData(ItemOf(k), RemoteFileOf(inspect_button_handlers(EntryOf(k).el)))

\* the URL Builder yields no URL for the item of record k
BuilderGaveNothing(k) ==
    ~Truthy(BuiltUrl(ReferenceOf(k), PyInt("1"), PlainTextLabel(ItemOf(k).label)))

\* (a) the URL the inline preview frame gives, None when it gives none
FrameUrl(iframe) ==
    IF iframe.st = "present" /\ Truthy(iframe.src) /\ iframe.hasFileId
       /\ iframe.file.present
    THEN IF iframe.file.digits # ""
         THEN PyStr("https://firestoneco.api.civicclerk.com/v1/"
                    \o "Meetings/GetMeetingFileStream(fileId=" \o iframe.file.digits
                    \o ",plainText="
                    \o (IF iframe.file.plainTrue THEN "true" ELSE "false") \o ")")
         ELSE PyStr(iframe.file.url)
    ELSE PyNone

\* (b) the href of the first matching anchor, None without one
AnchorUrl(anchors) ==
    IF anchors.st = "found" /\ Truthy(anchors.href) THEN anchors.href ELSE PyNone

\* access to the frame raises: a failing access, or (Selenium) no frame
FrameAccessRaises(backend, iframe) ==
    iframe.st = "raises" \/ (backend = "selenium" /\ iframe.st = "absent")

\* C21: for every record of a primary menu item whose reference gave the
\* URL Builder nothing, the download_url is the URL of the preview frame
\* when the frame gives one, else the href of the matching anchor when
\* there is one, and "N/A" only when builder, frame and anchors all failed.
C21_FallbacksInOrder ==
    \A k \in PrimaryItemRecords :
        BuilderGaveNothing(k) =>
            wk_files[k].download_url
                = (IF Truthy(FrameUrl(wk_page.iframe)) THEN FrameUrl(wk_page.iframe)
                   ELSE IF Truthy(AnchorUrl(wk_page.anchors))
                        THEN AnchorUrl(wk_page.anchors)
                   ELSE PyStr("N/A"))

\* what does hold: the frame comes first, and the anchors are scanned only
\* when the access to the frame raised
AnchorsOnlyAfterFrameRaised ==
    \A k \in PrimaryItemRecords :
        BuilderGaveNothing(k) =>
            wk_files[k].download_url
                = (IF Truthy(FrameUrl(wk_page.iframe)) THEN FrameUrl(wk_page.iframe)
                   ELSE IF FrameAccessRaises(wk_backend, wk_page.iframe)
                           /\ Truthy(AnchorUrl(wk_page.anchors))
                        THEN AnchorUrl(wk_page.anchors)
                   ELSE PyStr("N/A"))

\* a frame whose source has no fileId and a matching anchor on the page:
\* "N/A" was recorded and the anchor never looked at
AnchorNeverScanned ==
    /\ wk_pc = "returned"
    /\ wk_page.iframe.st = "present" /\ ~wk_page.iframe.hasFileId
    /\ wk_page.anchors = Anchor(PyStr("https://example.org/download/7"))
    /\ \E k \in PrimaryItemRecords :
          BuilderGaveNothing(k) /\ wk_files[k].download_url = PyStr("N/A")

\* the frame gave the URL although an anchor matched
FrameBeforeAnchors ==
    /\ wk_pc = "returned"
    /\ wk_page.anchors = Anchor(PyStr("https://example.org/download/7"))
    /\ \E k \in PrimaryItemRecords :
          /\ BuilderGaveNothing(k)
          /\ wk_files[k].download_url
                = PyStr("https://firestoneco.api.civicclerk.com/v1/Meetings/GetMeetingFileStream(fileId=9,plainText=true)")

(***************************************************************************)
(* Claims about the menus (SpecWalk).                                      *)
(***************************************************************************)
TriggerClicks == { p \in DOMAIN wk_events : wk_events[p].ev = "click" }

\* the menu opened by the click at position q was closed before position p
ClosedBetween(q, p) ==
    \E c \in (q + 1)..(p - 1) :
        wk_events[c] = Close(wk_events[q].sec, wk_events[q].entry)

\* C22: at most one menu is open at a time: when a trigger is clicked, the
\* menu of every earlier click has been closed by a click outside.
C22_OneMenuAtATime ==
    \A p \in TriggerClicks :
        \A q \in TriggerClicks : q < p => ClosedBetween(q, p)

\* what does hold: in the attachments section every click on a trigger is
\* followed at once by a click outside (which may itself fail), and in the
\* primary section by one iff a record of that entry's menu was appended.
CloseClickAfterMenu ==
    \A q \in TriggerClicks :
        IF wk_events[q].sec = "attachments"
        THEN /\ q < Len(wk_events)
             /\ wk_events[q + 1] \in { Close("attachments", wk_events[q].entry),
                                       CloseFailed("attachments", wk_events[q].entry) }
        ELSE (\E k \in DOMAIN wk_files :
                  /\ wk_files[k].origin.sec = "files"
                  /\ wk_files[k].origin.entry = wk_events[q].entry
                  /\ wk_files[k].origin.item > 0)
             <=> (/\ q < Len(wk_events)
                  /\ wk_events[q + 1] \in { Close("files", wk_events[q].entry),
                                            CloseFailed("files", wk_events[q].entry) })

\* a primary menu without usable item was left open and the next trigger
\* clicked; no click failed
MenuLeftOpen ==
    /\ wk_pc = "returned"
    /\ \E q \in TriggerClicks :
          /\ q < Len(wk_events)
          /\ wk_events[q].sec = "files"
          /\ wk_events[q + 1].ev = "click"
          /\ wk_page.primary[wk_events[q].entry].menuAppears
          /\ ReadableItems(wk_backend, wk_page.primary[wk_events[q].entry]) = {}
    /\ \A p \in DOMAIN wk_events : wk_events[p].ev # "closeFailed"

\* two menus were opened one after the other, the first closed in between
MenusClosedInTurn ==
    /\ wk_pc = "returned"
    /\ Cardinality(TriggerClicks) >= 2
    /\ C22_OneMenuAtATime

(***************************************************************************)
(* Claims about the fields of a record (SpecWalk).                         *)
(***************************************************************************)
\* the records built from a menu item, in either section
ItemRecords == { k \in DOMAIN wk_files : wk_files[k].origin.item > 0 }

\* the entry and the menu item record k was built from
RecordEntry(k) ==
    IF wk_files[k].origin.sec = "files"
    THEN wk_page.primary[wk_files[k].origin.entry]
    ELSE wk_page.attachments[wk_files[k].origin.entry]

RecordItem(k) == RecordEntry(k).items[wk_files[k].origin.item]

\* the labels of the fixtures that contain the text Plain Text
PlainTextLabels == {"Plain Text", "Agenda (Plain Text)"}

\* the preview frame gave record k its URL and file id
FromFrameWithId(k) ==
    /\ wk_files[k].origin.sec = "files"
    /\ BuilderGaveNothing(k)
    /\ wk_page.iframe.st = "present" /\ Truthy(wk_page.iframe.src)
    /\ wk_page.iframe.hasFileId /\ wk_page.iframe.file.present
    /\ wk_page.iframe.file.digits # ""

\* C23: every record that carries a plain-text flag has it true iff the
\* label of its menu item contains "Plain Text", also when its URL came
\* from a fallback; and exactly the records of menu items carry the flag.
C23_PlainTextFromLabelOnly ==
    \A k \in DOMAIN wk_files :
        IF k \in ItemRecords
        THEN wk_files[k].plain_text = PyBool(RecordItem(k).label \in PlainTextLabels)
        ELSE wk_files[k].plain_text = Absent

\* what does hold: the flag follows the label unless the preview frame gave
\* the URL by a file id, and then it is whether the frame's file parameter
\* holds plainText=true
PlainTextFromLabelOrFrame ==
    \A k \in DOMAIN wk_files :
        IF k \in ItemRecords
        THEN wk_files[k].plain_text
                = PyBool(IF FromFrameWithId(k) THEN wk_page.iframe.file.plainTrue
                         ELSE RecordItem(k).label \in PlainTextLabels)
        ELSE wk_files[k].plain_text = Absent

\* a record of a menu item labelled PDF is flagged plain text because the
\* preview frame showed a plain-text file
PdfFlaggedPlainText ==
    /\ wk_pc = "returned"
    /\ \E k \in ItemRecords :
          /\ RecordItem(k).label = "PDF"
          /\ wk_files[k].plain_text = PyTrue
          /\ wk_files[k].file_id = PyStr("9")

\* flags that follow the label: Plain Text, a longer label holding it, the
\* lower-case text that does not count, and an anchor URL under a PDF label
FlagsFollowLabel ==
    /\ wk_pc = "returned"
    /\ \E k \in ItemRecords :
          \/ RecordItem(k).label = "Agenda (Plain Text)" /\ wk_files[k].plain_text = PyTrue
          \/ RecordItem(k).label = "plain text" /\ wk_files[k].plain_text = PyFalse
          \/ /\ RecordItem(k).label = "Plain Text"
             /\ wk_files[k].download_url = PyStr("https://example.org/download/7")
             /\ wk_files[k].plain_text = PyTrue

\* the reference inspection found on the menu item of record k, and on the
\* trigger of its entry
OwnReference(k)     == RemoteFileOf(inspect_button_handlers(RecordItem(k).el))
TriggerReference(k) == RemoteFileOf(inspect_button_handlers(RecordEntry(k).el))

\* the type code a section assumes
DefaultType(k) == IF wk_files[k].origin.sec = "files" THEN PyInt("1") ELSE PyInt("3")

\* the URL of the shape the type code asks for
ShapedUrl(ref, code, plain) ==
    IF code = PyInt("3")
    THEN PyStr("https://firestoneco.api.civicclerk.com/v1/Meetings/GetAttachmentFile(fileId="
               \o ref.fileId.v \o ")")
    ELSE PyStr("https://firestoneco.api.civicclerk.com/v1/Meetings/GetMeetingFileStream(fileId="
               \o ref.fileId.v \o ",plainText=" \o (IF plain THEN "true" ELSE "false")
               \o ")")

\* the reference has a file id and no stream URL: the URL is constructed
Constructed(ref) == Truthy(ref.fileId) /\ ~Truthy(ref.streamUrl)

\* record k is built from the reference ref, with the type code `code`
BuiltFrom(k, ref, code) ==
    /\ wk_files[k].file_id = Get(ref, "fileId")
    /\ Constructed(ref) =>
          wk_files[k].download_url
              = ShapedUrl(ref, code, wk_files[k].plain_text = PyTrue)

TypeCodeOrDefault(k, ref) ==
    IF ref.fileType.ty \in {"absent", "none"} THEN DefaultType(k) ELSE ref.fileType

TypeCodeOrDefaultOfKey(k, ref) ==
    IF ref.fileType.ty = "absent" THEN DefaultType(k) ELSE ref.fileType

TriggerReferenceUsed ==
    /\ wk_pc = "returned"
    /\ \E k \in ItemRecords :
          /\ ~OwnReference(k).isdict /\ TriggerReference(k) = RF_agenda
          /\ wk_files[k].file_id = PyInt("42")

\* a reference without type code gives the attachment shape in the
\* attachments section
DefaultTypeAttachment ==
    /\ wk_pc = "returned"
    /\ \E k \in ItemRecords :
          /\ wk_files[k].origin.sec = "attachments" /\ OwnReference(k) = RF_bare
          /\ wk_files[k].download_url
                = PyStr("https://firestoneco.api.civicclerk.com/v1/Meetings/GetAttachmentFile(fileId=55)")

\* the same reference gives the stream shape in the primary section
DefaultTypePrimary ==
    /\ wk_pc = "returned"
    /\ \E k \in ItemRecords :
          /\ wk_files[k].origin.sec = "files"
          /\ \/ OwnReference(k) = RF_bare
             \/ ~OwnReference(k).isdict /\ TriggerReference(k) = RF_bare
          /\ wk_files[k].download_url
                = PyStr("https://firestoneco.api.civicclerk.com/v1/Meetings/GetMeetingFileStream(fileId=55,plainText=false)")

\* no reference at all, and the file id read off the preview frame
FileIdFromFrameOnly ==
    /\ wk_pc = "returned"
    /\ \E k \in ItemRecords :
          /\ ~OwnReference(k).isdict /\ ~TriggerReference(k).isdict
          /\ wk_files[k].file_id = PyStr("9")

(***************************************************************************)
(* Claims about entries without download trigger (SpecWalk).               *)
(***************************************************************************)
\* the entry has a display name and no download trigger the section knows
NoTrigger(sec, e) ==
    /\ ~e.isHeader /\ e.hasName
    /\ IF sec = "files" THEN e.trigger # "files"
       ELSE e.trigger \notin {"reportFiles", "attachmentFiles"}

EntriesOf(sec) == IF sec = "files" THEN wk_page.primary ELSE wk_page.attachments

\* entry i of the section gave the one placeholder record and no click
OnePlaceholder(sec, i, label) ==
    /\ Cardinality(FromEntry(sec, i)) = 1
    /\ \A k \in FromEntry(sec, i) :
          /\ wk_files[k].name = PyStr(EntriesOf(sec)[i].name)
          /\ wk_files[k].type = PyStr(label)
          /\ wk_files[k].download_url = PyStr("N/A")
          /\ wk_files[k].origin.item = 0
    /\ \A p \in DOMAIN wk_events :
          ~(wk_events[p].sec = sec /\ wk_events[p].entry = i)

\* every entry without trigger gave its placeholder
PlaceholderForEveryTriggerless ==
    (wk_pc = "returned" /\ wk_page.filesFound /\ wk_page.attachmentsFound) =>
        /\ \A i \in DOMAIN wk_page.primary :
              NoTrigger("files", wk_page.primary[i]) => OnePlaceholder("files", i, "Unknown")
        /\ \A i \in DOMAIN wk_page.attachments :
              NoTrigger("attachments", wk_page.attachments[i])
                  => OnePlaceholder("attachments", i, "Attachment")

\* the records that are placeholders: no menu item behind them
Placeholders(sec) ==
    { k \in DOMAIN wk_files : wk_files[k].origin.sec = sec /\ wk_files[k].origin.item = 0 }

\* C25: an entry with a display name and no download trigger gives exactly
\* one record, with download_url "N/A" and type "Unknown" (primary) or
\* "Attachment" (attachments), and no click; and every such placeholder
\* record comes from an entry that has no trigger.
C25_PlaceholderOnlyWithoutTrigger ==
    /\ PlaceholderForEveryTriggerless
    /\ \A sec \in {"files", "attachments"} :
          \A k \in Placeholders(sec) :
              NoTrigger(sec, EntriesOf(sec)[wk_files[k].origin.entry])

\* what does hold: every entry without trigger gives its placeholder, and
\* the Playwright backend and the attachments section of the Selenium
\* backend give one for no other entry
PlaceholderOnlyWithoutTriggerPlaywright ==
    /\ PlaceholderForEveryTriggerless
    /\ \A sec \in {"files", "attachments"} :
          \A k \in Placeholders(sec) :
              (wk_backend = "playwright" \/ sec = "attachments")
                  => NoTrigger(sec, EntriesOf(sec)[wk_files[k].origin.entry])

\* the Selenium backend recorded a placeholder for a primary entry whose
\* trigger was there and was clicked, the menu never showing
PlaceholderDespiteTrigger ==
    /\ wk_pc = "returned" /\ wk_backend = "selenium"
    /\ \E k \in Placeholders("files") :
          /\ wk_page.primary[wk_files[k].origin.entry].trigger = "files"
          /\ ~wk_page.primary[wk_files[k].origin.entry].menuAppears
          /\ Click("files", wk_files[k].origin.entry)
                 \in { wk_events[p] : p \in DOMAIN wk_events }

\* a primary entry without trigger gave its placeholder, no event at all
PrimaryPlaceholder ==
    /\ wk_pc = "returned" /\ wk_events = <<>>
    /\ \E k \in Placeholders("files") :
          /\ wk_files[k].type = PyStr("Unknown")
          /\ wk_page.primary[wk_files[k].origin.entry] = P_noTrigger

\* an attachment entry with a trigger of a kind the section does not know
\* gave the placeholder of the section
AttachmentPlaceholder ==
    /\ wk_pc = "returned"
    /\ \E k \in Placeholders("attachments") :
          /\ wk_files[k].type = PyStr("Attachment")
          /\ wk_page.attachments[wk_files[k].origin.entry].trigger = "files"

(***************************************************************************)
(* Claims about the saved files (SpecName, SpecSave).                      *)
(***************************************************************************)
\* the file name without its last four characters, and those four
StemOf(filename) == SubSeq(filename, 1, Len(filename) - 4)
ExtOf(filename)  == SubSeq(filename, Len(filename) - 3, Len(filename))

\* the letters, digits and underscores of a text, in order
WordsOnly(cs) ==
    SelectSeq(cs, LAMBDA c : c \notin {" ", "\t", "\n", "-", ":", "/", "#", "(", ")", "."})

\* C26: the stem of the saved file has only word characters and hyphens, no
\* whitespace and no two hyphens in a row, and sanitizing it again changes
\* nothing; the extension comes after the sanitized stem and is .txt iff
\* the record's plain_text is true, else .pdf; the file lies at
\* <download_dir>/event_<event id>/<stem><ext>.
C26_SanitizedStemAndExtension ==
    fn_pc = "done" =>
        /\ \A p \in DOMAIN StemOf(fn_out.filename) :
              /\ StemOf(fn_out.filename)[p] \notin {" ", "\t", "\n", ":", "/", "#", "(", ")", "."}
              /\ p > 1 => ~(StemOf(fn_out.filename)[p] = "-"
                            /\ StemOf(fn_out.filename)[p - 1] = "-")
        /\ WordsOnly(StemOf(fn_out.filename)) = WordsOnly(fn_in.name)
        /\ safe_name(StemOf(fn_out.filename)) = StemOf(fn_out.filename)
        /\ ExtOf(fn_out.filename)
              = (IF fn_in.plain_text = PyTrue THEN <<".", "t", "x", "t">>
                 ELSE <<".", "p", "d", "f">>)
        /\ fn_out.dir = "downloads"
        /\ fn_out.event = fn_in.event_id

\* "Agenda: Packet #1 (Final)" of a plain-text record is saved as
\* Agenda-Packet-1-Final.txt
C26_Witness ==
    /\ fn_pc = "done"
    /\ fn_in.name = <<"A", "g", "e", "n", "d", "a", ":", " ", "P", "a", "c", "k", "e", "t",
                      " ", "#", "1", " ", "(", "F", "i", "n", "a", "l", ")">>
    /\ fn_in.plain_text = PyTrue
    /\ fn_out.filename = <<"A", "g", "e", "n", "d", "a", "-", "P", "a", "c", "k", "e", "t",
                           "-", "1", "-", "F", "i", "n", "a", "l", ".", "t", "x", "t">>

\* whitespace at the ends goes, runs inside become one hyphen
RunsCollapsed ==
    /\ fn_pc = "done"
    /\ fn_in.name = <<" ", "S", "t", "a", "f", "f", " ", " ", "R", "e", "p", "o", "r", "t",
                      " ", "-", " ", "v", "2", " ">>
    /\ fn_out.filename = <<"S", "t", "a", "f", "f", "-", "R", "e", "p", "o", "r", "t", "-",
                           "v", "2", ".", "p", "d", "f">>

\* a name of removed characters only is saved under the bare extension
EmptyStem ==
    /\ fn_pc = "done"
    /\ fn_in.name = <<":", "/">>
    /\ fn_out.filename = <<".", "p", "d", "f">>

(***************************************************************************)
(* Claims about the Component Inspector (SpecInsp).                        *)
(***************************************************************************)
\* the node has a remoteFile payload in its committed props
HasPayload(node) == node.memo.isprops /\ node.memo.key = "obj"

\* positions of the chain the walk may reach: the element's own node and
\* ten ancestors
WithinCap(chain) == { p \in DOMAIN chain : p - 1 <= 10 }

PayloadsWithinCap(chain) == { p \in WithinCap(chain) : HasPayload(chain[p]) }

Nearest(S) == CHOOSE p \in S : \A q \in S : p <= q

\* C27: the walk is capped at depth 10: a reference is returned iff a node
\* within the cap has a remoteFile payload in its committed props, it is
\* the payload of the first such node, and a chain whose only payload lies
\* beyond the cap, or without payload, or an inspection that fails, gives
\* no reference and no error.
C27_WalkCappedAtDepthTen ==
    ci_pc = "done" =>
        IF ci_el.evalRaises THEN ci_out = NoHandlers
        ELSE /\ ci_out.ok
             /\ IF PayloadsWithinCap(ci_el.chain) = {}
                THEN ci_out.remoteFile = NoDict
                ELSE ci_out.remoteFile
                        = ci_el.chain[Nearest(PayloadsWithinCap(ci_el.chain))].memo.rf

\* the payload of the tenth ancestor, the last node within the cap, is
\* found, with another payload behind it
C27_Witness ==
    /\ ci_pc = "done"
    /\ Len(ci_el.chain) = 12
    /\ PayloadsWithinCap(ci_el.chain) = {11}
    /\ HasPayload(ci_el.chain[12])
    /\ ci_out.remoteFile = RF_near

\* the only payload sits on the eleventh ancestor: nothing is returned
PayloadBeyondCap ==
    /\ ci_pc = "done"
    /\ Len(ci_el.chain) >= 12
    /\ \E p \in DOMAIN ci_el.chain : p = 12 /\ HasPayload(ci_el.chain[p])
    /\ PayloadsWithinCap(ci_el.chain) = {}
    /\ ci_out.ok /\ ci_out.remoteFile = NoDict

\* the positions within the cap of download-button components with payload
ButtonsWithinCap(chain) == { p \in PayloadsWithinCap(chain) : chain[p].dfb }

\* C28: when within the cap both a download-button component and another
\* node have a payload, the payload of the download-button component is
\* returned, wherever the two sit in the chain.
C28_DownloadButtonPreferred ==
    (/\ ci_pc = "done" /\ ~ci_el.evalRaises
     /\ ButtonsWithinCap(ci_el.chain) # {}
     /\ PayloadsWithinCap(ci_el.chain) \ ButtonsWithinCap(ci_el.chain) # {})
        => ci_out.remoteFile
              = ci_el.chain[Nearest(ButtonsWithinCap(ci_el.chain))].memo.rf

\* a node that is not the download button has a payload and sits nearer to
\* the element than the download button: its payload is returned
NearerNodeWins ==
    /\ ci_pc = "done"
    /\ Len(ci_el.chain) = 2
    /\ ~ci_el.chain[1].dfb /\ HasPayload(ci_el.chain[1])
    /\ ci_el.chain[2].dfb /\ HasPayload(ci_el.chain[2])
    /\ ci_out.remoteFile = RF_near

\* the download button is the nearer of the two and its payload is returned
NearerButtonWins ==
    /\ ci_pc = "done"
    /\ Len(ci_el.chain) = 2
    /\ ci_el.chain[1].dfb /\ HasPayload(ci_el.chain[1])
    /\ ~ci_el.chain[2].dfb /\ HasPayload(ci_el.chain[2])
    /\ ci_out.remoteFile = RF_near

(***************************************************************************)
(* Claims about the two backends (SpecWalk).                               *)
(***************************************************************************)
OtherBackend(backend) == IF backend = "playwright" THEN "selenium" ELSE "playwright"

\* the fields of the records that the two walkers are compared on
Compared(files) ==
    [k \in DOMAIN files |->
        [name |-> files[k].name, type |-> files[k].type, section |-> files[k].section,
         download_url |-> files[k].download_url, file_id |-> files[k].file_id,
         plain_text |-> files[k].plain_text]]

\* C29: on the same files page the other backend returns the same records
\* as the one that walked it: as many, in the same order, with the same
\* names, type labels, sections, download_urls, file_ids and plain-text
\* flags.
C29_BackendsReturnSameRecords ==
    wk_pc = "returned" =>
        Compared(wk_files)
            = Compared(scrape_meeting_files(OtherBackend(wk_backend), wk_page).files)

\* a page on which nothing fails, every trigger's reference has a name,
\* every menu item's reference has a file id, and there is no preview frame
\* and no download anchor
OrdinaryPage(page) ==
    /\ \A i \in DOMAIN page.primary : page.primary[i] \in PrimaryBasic
    /\ \A i \in DOMAIN page.attachments : page.attachments[i] \in AttachBasic
    /\ page.iframe = IframeAbsent /\ page.anchors = NoAnchors

\* what does hold: the backends agree on ordinary pages
BackendsAgreeOnOrdinaryPages ==
    (wk_pc = "returned" /\ OrdinaryPage(wk_page)) =>
        Compared(wk_files)
            = Compared(scrape_meeting_files(OtherBackend(wk_backend), wk_page).files)

\* an ordinary page with records of both sections was walked
OrdinaryPageWalked ==
    /\ wk_pc = "returned" /\ OrdinaryPage(wk_page)
    /\ wk_page.filesFound /\ wk_page.attachmentsFound
    /\ \E k \in DOMAIN wk_files : wk_files[k].origin.sec = "files"
    /\ \E k \in DOMAIN wk_files : wk_files[k].origin = Origin("attachments", 2, 2)

\* nothing fails, and the backends differ in the name: the trigger's
\* reference has no name, Playwright keeps the visible one, Selenium has None
NamesDiffer ==
    /\ wk_pc = "returned" /\ wk_backend = "selenium"
    /\ wk_page.primary = <<[P_ok EXCEPT !.el = El_own(RF_bare)]>>
    /\ Len(wk_files) >= 1 /\ wk_files[1].name = PyNone
    /\ scrape_meeting_files("playwright", wk_page).files[1].name = PyStr("Agenda")

\* nothing fails, and the backends differ in the number of records
CountsDiffer ==
    /\ wk_pc = "returned"
    /\ \A i \in DOMAIN wk_page.primary :
          LET e == wk_page.primary[i]
          IN  ~e.handleRaises /\ ~e.clickRaises /\ e.menuAppears /\ ~e.closeRaises
    /\ \A i \in DOMAIN wk_page.attachments :
          LET e == wk_page.attachments[i]
          IN  ~e.handleRaises /\ ~e.clickRaises /\ e.menuAppears /\ ~e.closeRaises
    /\ Len(wk_files) # Len(scrape_meeting_files(OtherBackend(wk_backend), wk_page).files)

(***************************************************************************)
(* Claims about the files of one meeting on disk (SpecSave).               *)
(***************************************************************************)
\* two different fetches of the same meeting
SameMeeting(a, b) ==
    a # b /\ downloads[a].event_id = downloads[b].event_id

\* C30: within one meeting in direct-fetch mode, the fetches of distinct
\* records are written to distinct paths: no downloaded file overwrites
\* another one of the same meeting.
C30_DistinctRecordsDistinctPaths ==
    \A a, b \in Fetches :
        SameMeeting(a, b) => downloads[a].path # downloads[b].path

\* what does hold: two records of a meeting are written to the same path
\* exactly when their names sanitize to the same stem and their plain-text
\* flags agree; files of different meetings never share a path
SamePathIffSameStemAndKind ==
    \A a, b \in Fetches :
        /\ SameMeeting(a, b) =>
              (downloads[a].path = downloads[b].path
                  <=> /\ safe_name(NameChars(RecordOf(downloads[a]).name.v))
                            = safe_name(NameChars(RecordOf(downloads[b]).name.v))
                      /\ (RecordOf(downloads[a]).plain_text = PyTrue)
                            = (RecordOf(downloads[b]).plain_text = PyTrue))
        /\ downloads[a].event_id # downloads[b].event_id
              => downloads[a].path # downloads[b].path

\* two attachments of one meeting with the same name and different files:
\* both fetches succeeded and the second was written over the first
FileOverwritten ==
    /\ pc = "done"
    /\ \E a, b \in Fetches :
          /\ SameMeeting(a, b) /\ a < b
          /\ downloads[a].ok /\ downloads[b].ok
          /\ downloads[a].url # downloads[b].url
          /\ downloads[a].path = downloads[b].path

\* names that differ in punctuation only are saved under one name
PunctuationCollides ==
    /\ pc = "done"
    /\ \E a, b \in Fetches :
          /\ SameMeeting(a, b)
          /\ RecordOf(downloads[a]).name = PyStr("Agenda: Packet #1 (Final)")
          /\ RecordOf(downloads[b]).name = PyStr("Agenda Packet 1 Final")
          /\ downloads[a].path = downloads[b].path

\* the PDF and the plain text of one attachment lie side by side
PdfAndTextSideBySide ==
    /\ pc = "done"
    /\ \E a, b \in Fetches :
          /\ SameMeeting(a, b)
          /\ RecordOf(downloads[a]).name = RecordOf(downloads[b]).name
          /\ downloads[a].path.filename = <<"S", "t", "a", "f", "f", "-", "R", "e", "p",
                                            "o", "r", "t", ".", "p", "d", "f">>
          /\ downloads[b].path.filename = <<"S", "t", "a", "f", "f", "-", "R", "e", "p",
                                            "o", "r", "t", ".", "t", "x", "t">>

=============================================================================
